---- MODULE Spec2Model ----
(***************************************************************************)
(* Model of the pipe transport of rdiff-backup                             *)
(* (src/rdiff_backup/connection.py): two processes, a client and a server, *)
(* each holding one PipeConnection to the other.  A process is a stack of  *)
(* activations (reval, _get_response, _answer_request, a dispatched        *)
(* callable, ...); one action is one step of the activation on top.        *)
(***************************************************************************)
EXTENDS Integers, Sequences, FiniteSets, TLC

\* ---------------------------------------------------------------- constants
ReqRange == 256     \* set(range(256)) in PipeConnection.__init__
QuitReqNum == 255   \* request number written by _putquit
\* (variant: the server waits for a number a request can carry)
ServerDesired_low == ReqRange - ReqRange
ServerDesired == -1 \* Server() calls _get_response(-1)

\* ------------------------------------------------------------------- bounds
LowReqs == 2        \* request numbers 0..LowReqs-1 are represented, and 255
MaxCalls == 2       \* top-level calls the client's driver issues
MaxArg == 1         \* arguments of pow are drawn from 0..MaxArg
MaxDepth == 3       \* deepest callback chain the driver asks for
MaxConn == 3        \* connection numbers 0..MaxConn are asked for

\* The request numbers of range(256) the model keeps: the low ones and 255.
ReqNums == {n \in 0..(ReqRange - 1) : n < LowReqs \/ n = QuitReqNum}

Procs == {"client", "server"}
Peer(p) == IF p = "client" THEN "server" ELSE "client"

\* ------------------------------------------------------------------- values
\* A decoded object: a ConnectionRequest (name = function_string,
\* n = num_args), a plain value (n), or an exception (name = its class,
\* n = its errno, errno_str = the attribute _extract_exception adds, "" when
\* the object has none).
Obj(kind, name, n) == [kind |-> kind, name |-> name, n |-> n, errno_str |-> ""]
Request(fs, k) == Obj("request", fs, k)
Value(n) == Obj("value", "", n)
Exc(name) == Obj("exception", name, 0)
OSError(c) == Obj("exception", "OSError", c)
Str(name) == Obj("str", name, 0)
NoneObj == Obj("value", "None", 0)
Quitting == Obj("value", "quitting", 0)

Frame(tag, req, obj) == [tag |-> tag, req |-> req, obj |-> obj]

\* An activation record; every record has every field.  nresp, vetted,
\* resolved, ack and raised (the try of this activation caught a failure) are
\* history.
Act(fn, pc, fs, args, req) ==
    [fn |-> fn, pc |-> pc, fs |-> fs, args |-> args, req |-> req,
     nargs |-> 0, i |-> 1, res |-> NoneObj, pre |-> {},
     vetted |-> -1, resolved |-> FALSE, nresp |-> 0, ack |-> -1,
     raised |-> FALSE]

\* ------------------------------------------------------ the callables' names
Builtins == {"pow"}
Globals == {"os", "callback", "fail", "RedirectedRun"}
\* names the driver asks for
FunctionStrings == {"pow", "callback", "os.getpid", "os.system", "missing", "fail"}
FirstElem(fs) ==
    CASE fs = "os.getpid" -> "os"
      [] fs = "os.system" -> "os"
      [] OTHER -> fs

RECURSIVE Pow(_, _)
Pow(x, y) == IF y = 0 THEN 1 ELSE x * Pow(x, y - 1)

Pid(p) == IF p = "client" THEN 7 ELSE 8

\* Connection._eval: TRUE when the function string resolves to a callable.
EvalResolves(fs) == FirstElem(fs) \in Builtins \/ FirstElem(fs) \in Globals

\* Security.vet_request: TRUE when the gate lets the request through.
vet_request(fs, args) == fs # "os.system"

\* robust.is_routine_fatal: keyboard interrupt, forced exit, lost connection
is_routine_fatal(exc) ==
    exc.name \in {"ConnectionError", "ConnectionReadError",
                  "ConnectionWriteError", "KeyboardInterrupt", "SystemExit"}

\* The driver of the client catches the failures reval re-raises from a
\* marshalled response; any other failure ends the process.
DriverCatches(exc) ==
    exc.name \in {"NameError", "Violation", "OSError", "KeyError", "AttributeError"}

\* errno.errorcode of the platform each process runs on, as <<code, name>>;
\* the two platforms number EAGAIN differently and only the server's has
\* EDQUOT.
ErrorCodes(p) ==
    IF p = "client" THEN {<<2, "ENOENT">>, <<11, "EAGAIN">>}
                    ELSE {<<2, "ENOENT">>, <<35, "EAGAIN">>, <<69, "EDQUOT">>}
\* errno.errorcode.get(c, "EUNKWN")
errorcode_get(p, c) ==
    IF \E e \in ErrorCodes(p) : e[1] = c
    THEN (CHOOSE e \in ErrorCodes(p) : e[1] = c)[2]
    ELSE "EUNKWN"
\* getattr(errno, s, c)
errno_getattr(p, s, c) ==
    IF \E e \in ErrorCodes(p) : e[2] = s
    THEN (CHOOSE e \in ErrorCodes(p) : e[2] = s)[1]
    ELSE c

\* The failures the callable fail(exc) is asked to raise: OS errors without
\* code, with a code both platforms name, one only the sender names and one
\* nobody names; a routine-fatal failure; and a BaseException that is not an
\* Exception.
Failures ==
    {OSError(c) : c \in {0, 35, 69, 99}}
    \cup {Exc("KeyboardInterrupt"), Exc("GeneratorExit")}
\* the classes deriving from BaseException without deriving from Exception
BaseOnly == {"SystemExit", "KeyboardInterrupt", "GeneratorExit"}

\* The client has started the server through a child process it holds in
\* self.process; the server's PipeConnection is built on its own standard
\* streams, with process=None.
HasProcess(p) == p = "client"

\* specifics.connection_dict of each process: the kind of peer registered
\* under a connection number, "none" when the number is no key.  The client
\* is 0 and the server 1; the third peer of a session client - two servers is
\* folded onto the server: the server knows 2 as a routed peer through the
\* client, and the client reaches 2 over its pipe.
connection_dict(p, k) ==
    IF p = "client"
    THEN CASE k = 0 -> "local" [] k = 1 -> "pipe" [] k = 2 -> "pipe" [] OTHER -> "none"
    ELSE CASE k = 0 -> "pipe" [] k = 1 -> "local" [] k = 2 -> "routed" [] OTHER -> "none"

\* names the driver asks a routed peer for, and the arguments it passes: the
\* failure is an OS error whose code the two platforms name differently
RoutedStrings == {"os.getpid", "missing", "fail"}
RoutedArgs(fs) == IF fs = "fail" THEN {<<OSError(35)>>} ELSE {<<>>}

\* ---------------------------------------------------- Connection.globals
\* An object is named by the path of attributes that leads to it; a function
\* string is given as the list of segments funcstring.split(".") makes of it.
\* The names import_modules puts into Connection.globals.
Modules ==
    {"os", "platform", "shutil", "robust", "rpath", "SetConnections",
     "_dir_shadow", "_repo_shadow", "map_filenames", "consts", "generics",
     "log", "specifics", "stats"}
LocalElements == {"LocalConnection", "RedirectedRun", "VirtualFile"}

\* (variant: every construction imports the list again)
import_modules_always(g) ==
    [n \in DOMAIN g \cup Modules \cup LocalElements |->
       IF n \in Modules \cup LocalElements THEN <<n>> ELSE g[n]]

\* import_modules: does nothing once map_filenames is in globals
import_modules(g) ==
    IF "map_filenames" \in DOMAIN g THEN g
    ELSE [n \in DOMAIN g \cup Modules \cup LocalElements |->
            IF n \in Modules \cup LocalElements THEN <<n>> ELSE g[n]]

\* ------------------------------------------- the specifics module and start-up
\* A connection object as the registry holds it; NoConnection stands for None.
\* LocalConnection.__setattr__ keeps conn_number in Connection.globals and
\* __getattr__ reads it back from there: the record holds what is read back.
ConnObj(type, conn_number) == [type |-> type, conn_number |-> conn_number]
NoConnection == ConnObj("NoneType", -1)

\* Connection.__bool__ returns True; None is false
Truth(conn) == conn.type # "NoneType"

\* the specifics module before connection.py is imported; instances counts,
\* as history, the LocalConnection objects constructed
EmptySpecifics ==
    [local_connection |-> NoConnection, connections |-> <<>>,
     connection_dict |-> <<>>, instances |-> 0]

\* a variant of the constructor below without its assertion
LocalConnection__init___again(sp, g) ==
    [kind |-> "return", val |-> ConnObj("LocalConnection", 0),
     globals |-> import_modules(g)]

\* LocalConnection.__init__: assert not specifics.local_connection;
\* super().__init__(); self.conn_number = 0
LocalConnection__init__(sp, g) ==
    IF Truth(sp.local_connection)
    THEN [kind |-> "raise", val |-> "AssertionError", globals |-> g]
    ELSE [kind |-> "return", val |-> ConnObj("LocalConnection", 0),
          globals |-> import_modules(g)]

\* LocalConnection() evaluated in a process whose specifics module is sp: the
\* module keeps what it had, a constructed object is counted
Construct(sp, g) ==
    LET made == LocalConnection__init__(sp, g)
    IN  made @@
        [specifics |-> IF made.kind = "return"
                       THEN [sp EXCEPT !.instances = @ + 1] ELSE sp]

\* the last statements of connection.py, run when the module is imported
ModuleInitialisation(sp, g) ==
    LET made == Construct(sp, g)
        sp1 == [made.specifics EXCEPT !.local_connection = made.val]
        sp2 == [sp1 EXCEPT !.connections = Append(@, sp1.local_connection)]
        sp3 == [sp2 EXCEPT !.connection_dict = (0 :> sp2.local_connection) @@ @]
    IN  IF made.kind = "raise" THEN sp ELSE sp3

\* ------------------------------------------------------ log.Log of a session
\* A session is the client (process 0) and servers 1..MaxServers, each
\* connected to the client by a pipe; the number of a process is the
\* conn_number under which the others know it.
MaxServers == 2      \* servers of the session
MaxLogs == 2         \* messages and frames logged in a behaviour
LogPeers == 0..MaxServers
Messages == {"Starting server"}

\* Globals.connections of process p as the processes they lead to: the
\* local connection first, then the pipe connections in the order they
\* were appended
connections(p) ==
    IF p = 0 THEN [i \in 1..(MaxServers + 1) |-> i - 1] ELSE <<p, 0>>

\* the connection object by which process p designates process q
ConnTo(p, q) ==
    IF p = q THEN "LocalConnection"
    ELSE IF p = 0 \/ q = 0 THEN "PipeConnection" ELSE "RedirectedConnection"

\* Logger.__init__; log_file_conn is unset until open_logfile_allconn
\* (-1), a set one names the process it leads to
Logger ==
    [log_file_open |-> FALSE, log_file_local |-> FALSE, log_file_conn |-> -1,
     term_verbosity |-> 3, termverbset |-> FALSE]

\* the loggers of the session, the log file of each process (the messages
\* written to it), the lines each terminal got, the position of the
\* client in open_logfile or close_logfile, and as history the
\* log_to_file calls the latest operation made on a connection and the
\* number of messages and frames logged
NoLogging ==
    [log |-> [p \in LogPeers |-> Logger],
     file |-> [p \in LogPeers |-> <<>>],
     term |-> [p \in LogPeers |-> 0],
     pc |-> <<"idle", 0, 0>>,
     calls |-> <<>>,
     n |-> 0]

\* log_to_term: one line on the terminal of p
log_to_term(lg, p) == [lg EXCEPT !.term[p] = @ + 1]

\* (variant: a process that has the file open remotely writes nothing)
log_to_file_local(lg, p, message, hops) ==
    IF lg.log[p].log_file_open /\ lg.log[p].log_file_local
    THEN [lg EXCEPT !.file[p] = Append(@, message)]
    ELSE lg

\* log_to_file: if self.log_file_open: write and flush if
\* self.log_file_local, else self.log_file_conn.log.Log.log_to_file(message);
\* hops bounds the depth of the calls (a RecursionError beyond it)
RECURSIVE log_to_file(_, _, _, _)
log_to_file(lg, p, message, hops) ==
    IF ~lg.log[p].log_file_open THEN lg
    ELSE IF lg.log[p].log_file_local
    THEN [lg EXCEPT !.file[p] = Append(@, message)]
    ELSE IF hops > MaxServers + 1
    THEN [lg EXCEPT !.calls = Append(@, <<"RecursionError">>)]
    ELSE log_to_file([lg EXCEPT !.calls =
                         Append(@, <<p, lg.log[p].log_file_conn, message>>)],
                     lg.log[p].log_file_conn, message, hops + 1)

\* (variant: traffic is logged like any message, to file and terminal)
Logger_conn_logged(lg, p) ==
    IF lg.log[p].term_verbosity < 9 THEN lg
    ELSE log_to_term(log_to_file(lg, p, "traffic", 0), p)

\* Logger.conn: if self.term_verbosity < 9: return; self.log_to_term(..., 9)
Logger_conn(lg, p) ==
    IF lg.log[p].term_verbosity < 9 THEN lg ELSE log_to_term(lg, p)

\* open_logfile_local on the process holding rpath: the connection of rpath
\* must be local there; rpath.open("ab") fails or not
open_logfile_local(lg, owner, fails) ==
    IF fails THEN lg ELSE [lg EXCEPT !.log[owner].log_file_local = TRUE]

open_logfile_allconn(lg, p, log_file_conn) ==
    [lg EXCEPT !.log[p].log_file_open = TRUE,
               !.log[p].log_file_conn = log_file_conn]

close_logfile_allconn(lg, p) == [lg EXCEPT !.log[p].log_file_open = FALSE]

close_logfile_local(lg, p) == [lg EXCEPT !.log[p].log_file_local = FALSE]

\* ------------------------------------------------- the repository of a backup
MaxRuns == 3         \* backup runs started one after the other
MaxChanges == 2      \* changes apply makes to the repository in a run

\* The repository as the backup action sees it: the times of its
\* current-mirror markers, the changes of the run in progress applied to it,
\* whether the statistics of the run are closed; the clock; the position of
\* the run, its previous_time and, as history, the repository calls it has
\* made, how it ended and the number of runs
NoBackup ==
    [markers |-> {}, applied |-> 0, statistics |-> "none",
     curtime |-> 1, pc |-> "idle", previous_time |-> 0,
     calls |-> <<>>, ended |-> "", runs |-> 0]

Max(S) == CHOOSE x \in S : \A y \in S : y <= x
Min(S) == CHOOSE x \in S : \A y \in S : x <= y

\* repo.get_mirror_time: the time of the marker, 0 without marker, -1 with
\* more than one
get_mirror_time(rp) ==
    IF rp.markers = {} THEN 0
    ELSE IF Cardinality(rp.markers) = 1 THEN Max(rp.markers) ELSE -1

\* repo.needs_regress: the previous run left two markers
needs_regress(rp) == Cardinality(rp.markers) > 1

\* repo.regress: back to the older marker
regress(rp) == [rp EXCEPT !.markers = {Min(@)}, !.applied = 0]

touch_current_mirror(rp, time) ==
    [rp EXCEPT !.markers = @ \cup {time}, !.calls = Append(@, "touch_current_mirror")]

\* repo.remove_current_mirror: the older marker goes
remove_current_mirror(rp) ==
    [rp EXCEPT !.markers = @ \ {Min(@)}, !.calls = Append(@, "remove_current_mirror")]

\* (variant: the marker is always written once everything is applied)
Incremental_never(previous_time) == FALSE

\* if previous_time:
Incremental(previous_time) == previous_time # 0

\* the attributes the objects of the model have
HasAttr ==
    {<< <<"os">>, "getpid" >>, << <<"os">>, "system" >>, << <<"os">>, "path" >>,
     << <<"os", "path">>, "join" >>, << <<"VirtualFile">>, "closebyid" >>,
     << <<"pow">>, "__call__" >>}

\* the outcome of an operation op on arg: it returns val, or raises val
Outcome(op, arg, kind, val) == [op |-> op, arg |-> arg, kind |-> kind, val |-> val]

\* for elem in funclist: func = getattr(func, elem); an AttributeError
\* becomes the NameError of funcstring
RECURSIVE Walk(_, _, _)
Walk(func, funclist, funcstring) ==
    IF funclist = <<>> THEN Outcome("_eval", funcstring, "return", func)
    ELSE IF <<func, Head(funclist)>> \in HasAttr
    THEN Walk(Append(func, Head(funclist)), Tail(funclist), funcstring)
    ELSE Outcome("_eval", funcstring, "raise", "NameError")

\* the resolver as specified: the remaining segments are walked from a
\* built-in too
_eval_walked(g, funcstring) ==
    LET firstelem == Head(funcstring)
    IN  IF firstelem \in Builtins THEN Walk(<<firstelem>>, Tail(funcstring), funcstring)
        ELSE IF firstelem \in DOMAIN g THEN Walk(g[firstelem], Tail(funcstring), funcstring)
        ELSE Outcome("_eval", funcstring, "raise", "NameError")

\* Connection._eval: a built-in is returned directly; else the first
\* segment is looked up in globals (KeyError becomes NameError) and the
\* remaining segments are walked
_eval(g, funcstring) ==
    LET firstelem == Head(funcstring)
    IN  IF firstelem \in Builtins
        THEN Outcome("_eval", funcstring, "return", <<firstelem>>)
        ELSE IF firstelem \in DOMAIN g THEN Walk(g[firstelem], Tail(funcstring), funcstring)
        ELSE Outcome("_eval", funcstring, "raise", "NameError")

\* ------------------------------------------- LowLevelPipeConnection: frames
\* An integer of the program is its sign and its magnitude in limbs of 16
\* bits, most significant first and without leading zeros: lengths run up to
\* 2^56.  Num(n) is the integer n.
Limb == 65536
RECURSIVE Strip(_)
Strip(q) == IF q # <<>> /\ Head(q) = 0 THEN Strip(Tail(q)) ELSE q
Num(n) ==
    LET m == IF n < 0 THEN 0 - n ELSE n
    IN  [neg |-> n < 0, mag |-> Strip(<<m \div Limb, m % Limb>>)]

\* A byte string is a sequence of runs [b |-> byte, n |-> count]: a byte on
\* its own has count Num(1), and a run of more bytes is alone in its string.
Bytes(q) == [k \in DOMAIN q |-> [b |-> q[k], n |-> Num(1)]]
\* len(data)
len(data) == IF Len(data) = 1 THEN data[1].n ELSE Num(Len(data))

\* what to_bytes gives for an integer that does not fit, or is negative
OverflowError == <<-1>>

\* (variant: the most significant byte is dropped when the integer does
\* not fit)
_i2b_cut(i, size) ==
    LET F[k \in 0..Len(i.mag)] ==
          IF k = 0 THEN <<>>
          ELSE F[k - 1] \o <<i.mag[k] \div 256, i.mag[k] % 256>>
        b == Strip(F[Len(i.mag)])
    IN  IF size = 0 \/ Len(b) = size THEN b
        ELSE IF Len(b) > size THEN SubSeq(b, Len(b) - size + 1, Len(b))
        ELSE [k \in 1..(size - Len(b)) |-> 0] \o b

\* _i2b: i.to_bytes(size, byteorder="big"), size 0 standing for the least
\* number of bytes that holds i
_i2b(i, size) ==
    LET F[k \in 0..Len(i.mag)] ==
          IF k = 0 THEN <<>>
          ELSE F[k - 1] \o <<i.mag[k] \div 256, i.mag[k] % 256>>
        b == Strip(F[Len(i.mag)])
    IN  IF i.neg THEN OverflowError
        ELSE IF size = 0 \/ Len(b) = size THEN b
        ELSE IF Len(b) > size THEN OverflowError
        ELSE [k \in 1..(size - Len(b)) |-> 0] \o b

\* (variant: the least significant byte first)
_b2i_little(b) ==
    LET r == [k \in DOMAIN b |-> b[Len(b) + 1 - k]]
        e == IF Len(r) % 2 = 1 THEN <<0>> \o r ELSE r
    IN  [neg |-> FALSE,
         mag |-> Strip([k \in 1..(Len(e) \div 2) |-> e[2 * k - 1] * 256 + e[2 * k]])]

\* _b2i: int.from_bytes(b, byteorder="big")
_b2i(b) ==
    LET e == IF Len(b) % 2 = 1 THEN <<0>> \o b ELSE b
    IN  [neg |-> FALSE,
         mag |-> Strip([k \in 1..(Len(e) \div 2) |-> e[2 * k - 1] * 256 + e[2 * k]])]

\* headerchar.encode("ascii") of the characters that are written as tags
Ascii(ch) ==
    CASE ch = "o" -> 111 [] ch = "b" -> 98 [] ch = "f" -> 102 [] ch = "i" -> 105
      [] ch = "R" -> 82 [] ch = "Q" -> 81 [] ch = "r" -> 114 [] ch = "c" -> 99
      [] ch = "q" -> 113 [] OTHER -> 120
Tags == {"o", "b", "f", "i", "R", "Q", "r", "c", "q"}

\* headerchar + self._i2b(req_num, 1) + self._i2b(len(data), 7)
Header(headerchar, data, req_num) ==
    LET n == _i2b(Num(req_num), 1)
        l == _i2b(len(data), 7)
    IN  IF n = OverflowError \/ l = OverflowError THEN OverflowError
        ELSE <<Ascii(headerchar)>> \o n \o l

\* the value of a small integer
Val(i) ==
    IF i.mag = <<>> THEN 0
    ELSE IF Len(i.mag) = 1 THEN i.mag[1] ELSE i.mag[1] * Limb + i.mag[2]
\* the bytes of a string that holds no run
Plain(q) == [k \in DOMAIN q |-> q[k].b]

\* inpipe.read(length) at the end of the bytes q: what is returned and what
\* stays, full when length bytes were there
Take(q, length) ==
    IF Len(length.mag) <= 1
    THEN LET k == IF Val(length) < Len(q) THEN Val(length) ELSE Len(q)
         IN  [data |-> SubSeq(q, 1, k), rest |-> SubSeq(q, k + 1, Len(q)),
              full |-> k = Val(length)]
    ELSE IF q # <<>> /\ Head(q).n = length
         THEN [data |-> <<Head(q)>>, rest |-> Tail(q), full |-> TRUE]
         ELSE [data |-> q, rest |-> <<>>, full |-> FALSE]

GetResult(kind, val, fmt, req_num, length, data, rest) ==
    [kind |-> kind, val |-> val, fmt |-> fmt, req_num |-> req_num,
     length |-> length, data |-> data, rest |-> rest]

\* (variant: the data of a quit frame are read before the quit is raised)
_get_drain(q, eof, p) ==
    LET header_string == Take(q, Num(9))
        h == Plain(header_string.data)
        format_string == h[1]
        req_num == Val(_b2i(SubSeq(h, 2, 2)))
        length == _b2i(SubSeq(h, 3, 9))
        body == Take(header_string.rest, length)
        Res(kind, val) ==
            GetResult(kind, val, format_string, req_num, length, body.data, body.rest)
    IN  IF ~header_string.full
        THEN IF eof
             THEN GetResult("raise", "ConnectionReadError", 0, 0, Num(0), <<>>,
                            header_string.rest)
             ELSE GetResult("block", <<>>, 0, 0, Num(0), <<>>, q)
        ELSE IF format_string = Ascii("q")
        THEN IF ~body.full /\ ~eof
             THEN GetResult("block", <<>>, 0, 0, Num(0), <<>>, q)
             ELSE Res("raise", "ConnectionQuit")
        ELSE IF ~body.full /\ ~eof
        THEN GetResult("block", <<>>, 0, 0, Num(0), <<>>, q)
        ELSE IF format_string \in {Ascii("o"), Ascii("r"), Ascii("R"), Ascii("Q")}
        THEN IF body.full THEN Res("return", body.data)
             ELSE Res("raise", "UnpicklingError")
        ELSE IF format_string = Ascii("b")
        THEN Res("return", body.data)
        ELSE IF format_string \in {Ascii("f"), Ascii("i")}
        THEN Res("return", Val(_b2i(Plain(body.data))))
        ELSE IF format_string = Ascii("c")
        THEN LET conn == connection_dict(p, Val(_b2i(Plain(body.data))))
             IN  IF conn = "none" THEN Res("raise", "KeyError")
                 ELSE Res("return", conn)
        ELSE Res("raise", "ConnectionReadError")

\* (variant: a frame of unknown format character is returned as bytes)
_get_lenient(q, eof, p) ==
    LET header_string == Take(q, Num(9))
        h == Plain(header_string.data)
        format_string == h[1]
        req_num == Val(_b2i(SubSeq(h, 2, 2)))
        length == _b2i(SubSeq(h, 3, 9))
        body == Take(header_string.rest, length)
        Res(kind, val) ==
            GetResult(kind, val, format_string, req_num, length, body.data, body.rest)
    IN  IF ~header_string.full
        THEN IF eof
             THEN GetResult("raise", "ConnectionReadError", 0, 0, Num(0), <<>>,
                            header_string.rest)
             ELSE GetResult("block", <<>>, 0, 0, Num(0), <<>>, q)
        ELSE IF format_string = Ascii("q")
        THEN GetResult("raise", "ConnectionQuit", format_string, req_num, length,
                       <<>>, header_string.rest)
        ELSE IF ~body.full /\ ~eof
        THEN GetResult("block", <<>>, 0, 0, Num(0), <<>>, q)
        ELSE IF format_string \in {Ascii("o"), Ascii("r"), Ascii("R"), Ascii("Q")}
        THEN IF body.full THEN Res("return", body.data)
             ELSE Res("raise", "UnpicklingError")
        ELSE IF format_string \in {Ascii("f"), Ascii("i")}
        THEN Res("return", Val(_b2i(Plain(body.data))))
        ELSE IF format_string = Ascii("c")
        THEN LET conn == connection_dict(p, Val(_b2i(Plain(body.data))))
             IN  IF conn = "none" THEN Res("raise", "KeyError")
                 ELSE Res("return", conn)
        ELSE Res("return", body.data)

\* _get of the process p at the bytes q of its inpipe, eof when the other
\* end is closed: the header is nine bytes or the read fails; a quit
\* raises before the data are read; the data are read and decoded by the
\* format character, an object that is unpickled, a path or a request
\* standing as its bytes, a virtual file or iterator as its id and a
\* connection as what connection_dict holds; "block" when the read waits.
_get(q, eof, p) ==
    LET header_string == Take(q, Num(9))
        h == Plain(header_string.data)
        format_string == h[1]
        req_num == Val(_b2i(SubSeq(h, 2, 2)))
        length == _b2i(SubSeq(h, 3, 9))
        body == Take(header_string.rest, length)
        Res(kind, val) ==
            GetResult(kind, val, format_string, req_num, length, body.data, body.rest)
    IN  IF ~header_string.full
        THEN IF eof
             THEN GetResult("raise", "ConnectionReadError", 0, 0, Num(0), <<>>,
                            header_string.rest)
             ELSE GetResult("block", <<>>, 0, 0, Num(0), <<>>, q)
        ELSE IF format_string = Ascii("q")
        THEN GetResult("raise", "ConnectionQuit", format_string, req_num, length,
                       <<>>, header_string.rest)
        ELSE IF ~body.full /\ ~eof
        THEN GetResult("block", <<>>, 0, 0, Num(0), <<>>, q)
        ELSE IF format_string \in {Ascii("o"), Ascii("r"), Ascii("R"), Ascii("Q")}
        THEN IF body.full THEN Res("return", body.data)
             ELSE Res("raise", "UnpicklingError")
        ELSE IF format_string = Ascii("b")
        THEN Res("return", body.data)
        ELSE IF format_string \in {Ascii("f"), Ascii("i")}
        THEN Res("return", Val(_b2i(Plain(body.data))))
        ELSE IF format_string = Ascii("c")
        THEN LET conn == connection_dict(p, Val(_b2i(Plain(body.data))))
             IN  IF conn = "none" THEN Res("raise", "KeyError")
                 ELSE Res("return", conn)
        ELSE Res("raise", "ConnectionReadError")

\* ---------------------------------------------------------- VirtualFile
\* The file objects of the process that registers them: what each holds, how
\* far it has been read, how often close was called on it, what was written
\* to it, and (history) the buffers its read has returned, joined.
MaxFiles == 3       \* VirtualFile.new is called at most MaxFiles times
MaxWritten == 1     \* buffers written to one file object
Files == {"fa", "fb"}
FileData(fp) == IF fp = "fa" THEN <<1, 2, 3>> ELSE <<7>>
None == -2          \* the length of read() called without one
Without(f, k) == [j \in DOMAIN f \ {k} |-> f[j]]
FileResult(vf, st, kind, val) == [vf |-> vf, st |-> st, kind |-> kind, val |-> val]

\* fp.read(size) of a file object, size -1 being the default
fpread(st, fp, size) ==
    LET f == st[fp]
        left == Len(f.data) - f.pos
        k == IF size < 0 \/ size > left THEN left ELSE size
        buf == SubSeq(f.data, f.pos + 1, f.pos + k)
    IN  IF f.closes > 0 THEN [st |-> st, kind |-> "raise", val |-> "ValueError"]
        ELSE [st |-> [st EXCEPT ![fp].pos = @ + k, ![fp].out = @ \o buf],
              kind |-> "return", val |-> buf]

\* (variant: the id is the number of files registered now)
new_reuse(vf, fileobj) ==
    LET id == Cardinality(DOMAIN vf.files)
    IN  [counter |-> id,
         files |-> [j \in DOMAIN vf.files \cup {id} |->
                      IF j = id THEN fileobj ELSE vf.files[j]],
         ids |-> Append(vf.ids, id)]

\* VirtualFile.new: the table after fileobj is registered; the id returned
\* is its counter.  ids is history: the ids returned so far.
new(vf, fileobj) ==
    LET id == vf.counter + 1
    IN  [counter |-> id,
         files |-> [j \in DOMAIN vf.files \cup {id} |->
                      IF j = id THEN fileobj ELSE vf.files[j]],
         ids |-> Append(vf.ids, id)]

\* (variant: read() without a length reads one byte)
readfromid_one(vf, st, id, length) ==
    IF id \notin DOMAIN vf.files THEN FileResult(vf, st, "raise", "KeyError")
    ELSE LET r == fpread(st, vf.files[id], IF length = None THEN 1 ELSE length)
         IN  FileResult(vf, r.st, r.kind, r.val)

\* VirtualFile.readfromid
readfromid(vf, st, id, length) ==
    IF id \notin DOMAIN vf.files THEN FileResult(vf, st, "raise", "KeyError")
    ELSE LET r == fpread(st, vf.files[id], IF length = None THEN -1 ELSE length)
         IN  FileResult(vf, r.st, r.kind, r.val)

\* VirtualFile.writetoid
writetoid(vf, st, id, buffer) ==
    IF id \notin DOMAIN vf.files THEN FileResult(vf, st, "raise", "KeyError")
    ELSE LET fp == vf.files[id]
         IN  IF st[fp].closes > 0 THEN FileResult(vf, st, "raise", "ValueError")
             ELSE FileResult(vf, [st EXCEPT ![fp].written = Append(@, buffer)],
                             "return", <<Len(buffer)>>)

\* (variant: the entry is deleted after the file object is closed, and so
\* stays when close raises)
closebyid_after(vf, st, id, fails) ==
    IF id \notin DOMAIN vf.files THEN FileResult(vf, st, "raise", "KeyError")
    ELSE LET fp == vf.files[id]
             closed_ == [st EXCEPT ![fp].closes = @ + 1]
         IN  IF fails THEN FileResult(vf, closed_, "raise", "OSError")
             ELSE FileResult([vf EXCEPT !.files = Without(@, id)], closed_,
                             "return", <<>>)

\* VirtualFile.closebyid: fp = cls._vfiles[id]; del cls._vfiles[id];
\* return fp.close(), where close raises when fails
closebyid(vf, st, id, fails) ==
    IF id \notin DOMAIN vf.files THEN FileResult(vf, st, "raise", "KeyError")
    ELSE LET fp == vf.files[id]
             deleted == [vf EXCEPT !.files = Without(@, id)]
             closed_ == [st EXCEPT ![fp].closes = @ + 1]
         IN  IF fails THEN FileResult(deleted, closed_, "raise", "OSError")
             ELSE FileResult(deleted, closed_, "return", <<>>)

\* ---------------------------------------------------------------- variables
VARIABLES
    unused,     \* unused[p]: unused_request_numbers of p's PipeConnection
    pipe,       \* pipe[p]: frames written to p's inpipe and not yet read
    stack,      \* stack[p]: activation records of p, innermost last
    closed,     \* closed[p]: p has closed its pipes (or its process ended)
    status,     \* status[p]: "running", "returned" or "crashed"
    trace,      \* history: trace[p] = the frames p has written and read, in
                \* order, since the driver's call in progress began
    pending,    \* history: pending[p] = requests p has written whose response
                \* p has not read yet
    ncalls,     \* top-level calls issued so far
    failure,    \* history: failure[p] = the exception that ended process p
    process,    \* process[p]: self.process of p's PipeConnection: the state of
                \* the child ("none" when there is no child) and, as history,
                \* the calls _close has made on it
    globals,    \* Connection.globals of one process: name -> object
    vfiles,     \* VirtualFile._counter and VirtualFile._vfiles of one process
    streams,    \* the file objects of that process: their bytes, position
                \* and, as history, the calls made on them
    outpipe,    \* the bytes written to one pipe and not yet read, and
                \* whether the writing end is closed
    outcome,    \* history: the outcome of the latest operation
    specifics,  \* the specifics module of one process: local_connection,
                \* connections and connection_dict
    logger,     \* log.Log of every process of a session, the log file and
                \* the terminal
    repo        \* the repository of a backup run: its current-mirror
                \* markers and, as history, the steps of the run

\* the state of the pieces that are checked on their own, apart from the
\* request/response protocol
session == <<specifics, logger, repo>>

others == <<globals, vfiles, streams, outpipe, outcome, session>>

vars == <<unused, pipe, stack, closed, status, trace, pending, ncalls, failure,
          process, others>>

Top(p) == stack[p][Len(stack[p])]
Rest(p) == SubSeq(stack[p], 1, Len(stack[p]) - 1)
Running(p) == status[p] = "running" /\ stack[p] # <<>>
At(p, fn, pc) == Running(p) /\ Top(p).fn = fn /\ Top(p).pc = pc

\* A history entry: p wrote (send) or read (recv) the frame; role is what the
\* code at that place writes or takes the frame for: "request", "arg",
\* "response", "quit" or "ack".
Sent(p, f, role) == [ev |-> "send", p |-> p, frame |-> f, role |-> role]
Recv(p, f, role) == [ev |-> "recv", p |-> p, frame |-> f, role |-> role]
\* history: p has resolved fs and calls it with args, answering request req
Called_(p, fs, args, req) ==
    [ev |-> "call", p |-> p, frame |-> Frame("", req, Request(fs, Len(args))),
     role |-> "call"]

Init ==
    /\ unused = [p \in Procs |-> ReqNums]
    /\ pipe = [p \in Procs |-> <<>>]
    /\ stack = [p \in Procs |->
                 IF p = "client" THEN <<Act("main", "idle", "", <<>>, 0)>>
                                 ELSE <<Act("Server", "start", "", <<>>, 0)>>]
    /\ closed = [p \in Procs |-> FALSE]
    /\ status = [p \in Procs |-> "running"]
    /\ trace = [p \in Procs |-> <<>>]
    /\ pending = [p \in Procs |-> 0]
    /\ ncalls = 0
    /\ failure = [p \in Procs |-> NoneObj]
    /\ process = [p \in Procs |->
                   [state |-> IF HasProcess(p) THEN "alive" ELSE "none",
                    calls |-> <<>>]]
    /\ globals = import_modules(<<>>)
    /\ vfiles = [counter |-> -1, files |-> <<>>, ids |-> <<>>]
    /\ streams = [fp \in Files |->
                   [data |-> FileData(fp), pos |-> 0, closes |-> 0,
                    written |-> <<>>, out |-> <<>>]]
    /\ outpipe = [bytes |-> <<>>, closed |-> FALSE, frames |-> <<>>,
                  puts |-> 0, done |-> FALSE, answered |-> 0]
    /\ outcome = Outcome("", <<>>, "return", <<>>)
    /\ specifics = ModuleInitialisation(EmptySpecifics, <<>>)
    /\ logger = NoLogging
    /\ repo = NoBackup

\* ------------------------------------------------------ return and raise
\* The activation on top returns obj to the one below it.
Deliver(caller, obj) ==
    CASE caller.fn = "reval" -> [caller EXCEPT !.res = obj, !.pc = "gotresp"]
      [] caller.fn = "callable" -> [caller EXCEPT !.res = obj, !.pc = "returned"]
      [] caller.fn = "_answer_request" -> [caller EXCEPT !.res = obj, !.pc = "put"]
      [] caller.fn = "_get_response" -> [caller EXCEPT !.pc = "get"]
      [] caller.fn = "main" -> [caller EXCEPT !.res = obj, !.pc = "got"]
      [] caller.fn = "quit" -> [caller EXCEPT !.res = obj]
      [] OTHER -> [caller EXCEPT !.res = obj, !.pc = "returned"]

ReturnStack(stk, obj) ==
    LET rest == SubSeq(stk, 1, Len(stk) - 1)
    IN  IF Len(rest) = 0 THEN rest
        ELSE Append(SubSeq(rest, 1, Len(rest) - 1), Deliver(rest[Len(rest)], obj))

\* exc is raised in the activation on top of stk: the stack after the
\* exception has propagated to the innermost handler, <<>> if there is none.
\* The only handlers are the try of _answer_request around the gate and the
\* dispatched callable, and the driver of the client.
RECURSIVE Unwind(_, _)
Unwind(stk, exc) ==
    IF stk = <<>> THEN <<>>
    ELSE LET top == stk[Len(stk)]
             rest == SubSeq(stk, 1, Len(stk) - 1)
         IN  IF top.fn = "_answer_request" /\ top.pc \in {"vet", "resolve", "calling"}
             THEN Append(rest, [top EXCEPT !.res = exc, !.pc = "extract",
                                           !.raised = TRUE])
             ELSE IF top.fn = "main" /\ DriverCatches(exc)
             THEN Append(rest, [top EXCEPT !.res = exc, !.pc = "got",
                                           !.raised = TRUE])
             ELSE Unwind(rest, exc)

\* p raises exc from the activation on top; a process without handler ends,
\* which closes its ends of the pipes.
Raise(p, exc) ==
    LET stk == Unwind(stack[p], exc)
    IN  /\ stack' = [stack EXCEPT ![p] = stk]
        /\ status' = [status EXCEPT ![p] = IF stk = <<>> THEN "crashed" ELSE @]
        /\ closed' = [closed EXCEPT ![p] = IF stk = <<>> THEN TRUE ELSE @]
        /\ failure' = [failure EXCEPT ![p] = IF stk = <<>> THEN exc ELSE @]

\* exc raised by the activation below the top one (the top one is popped
\* first: an exception leaving a function).
RaiseFromCallee(p, exc) ==
    LET stk == Unwind(Rest(p), exc)
    IN  /\ stack' = [stack EXCEPT ![p] = stk]
        /\ status' = [status EXCEPT ![p] = IF stk = <<>> THEN "crashed" ELSE @]
        /\ closed' = [closed EXCEPT ![p] = IF stk = <<>> THEN TRUE ELSE @]
        /\ failure' = [failure EXCEPT ![p] = IF stk = <<>> THEN exc ELSE @]

\* LowLevelPipeConnection._write: the frame goes to the peer's inpipe.
CanWrite(p) == ~closed[p] /\ ~closed[Peer(p)]
\* the write fails: an OSError (the reader is gone) becomes
\* ConnectionWriteError; the ValueError of a write to one's own closed pipe
\* is not caught by _write
WriteError(p) == Exc(IF closed[p] THEN "ValueError" ELSE "ConnectionWriteError")
Write(p, f, role) ==
    /\ pipe' = [pipe EXCEPT ![Peer(p)] = Append(@, f)]
    /\ trace' = [trace EXCEPT ![p] = Append(@, Sent(p, f, role))]
    /\ pending' = [pending EXCEPT ![p] = IF role = "request" THEN @ + 1 ELSE @]

\* LowLevelPipeConnection._get on a frame that has arrived.
CanRead(p) == ~closed[p] /\ pipe[p] # <<>>
Read(p, role) ==
    /\ pipe' = [pipe EXCEPT ![p] = Tail(@)]
    /\ trace' = [trace EXCEPT ![p] = Append(@, Recv(p, Head(pipe[p]), role))]
    /\ pending' = [pending EXCEPT ![p] = IF role = "response" THEN @ - 1 ELSE @]

\* ------------------------------------------------------------- the driver
\* The driver is between two calls; nothing keeps it from calling reval or
\* quit on a connection it has already quit.
DriverIdle == At("client", "main", "idle") \/ At("client", "main", "done")

\* The client's driver calls conn.reval(fs, *args).
ArgsOf(fs) ==
    CASE fs = "pow" -> {<<Value(x), Value(y)>> : x \in 0..MaxArg, y \in 0..MaxArg}
      [] fs = "callback" -> {<<Value(d)>> : d \in 0..MaxDepth}
      [] fs = "fail" -> {<<exc>> : exc \in Failures}
      [] OTHER -> {<<>>}

ClientCall ==
    /\ DriverIdle
    /\ ncalls < MaxCalls
    /\ \E fs \in FunctionStrings : \E args \in ArgsOf(fs) :
        stack' = [stack EXCEPT !["client"] =
                    Append(Rest("client"),
                           [Top("client") EXCEPT !.pc = "called", !.fs = fs,
                                                 !.args = args])
                    \o <<Act("reval", "alloc", fs, args, 0)>>]
    /\ ncalls' = ncalls + 1
    /\ UNCHANGED others
    /\ UNCHANGED <<unused, pipe, closed, status, failure, trace, pending, process>>

\* The driver calls reval(fs, *args) on a RedirectedConnection with
\* conn_number k whose routing_conn is the pipe to the server:
\* self.routing_conn.reval("RedirectedRun", self.conn_number, fs, *args)
ClientCallRouted ==
    /\ DriverIdle
    /\ ncalls < MaxCalls
    /\ \E k \in 0..MaxConn : \E fs \in RoutedStrings : \E args \in RoutedArgs(fs) :
        LET rargs == <<Value(k), Str(fs)>> \o args
        IN  stack' = [stack EXCEPT !["client"] =
                        Append(Rest("client"),
                               [Top("client") EXCEPT !.pc = "called",
                                                     !.fs = "RedirectedRun",
                                                     !.args = rargs])
                        \o <<Act("reval", "alloc", "RedirectedRun", rargs, 0)>>]
    /\ ncalls' = ncalls + 1
    /\ UNCHANGED others
    /\ UNCHANGED <<unused, pipe, closed, status, failure, trace, pending, process>>

\* The driver has the result (or the failure) of its call and goes on.
ClientRecord ==
    /\ At("client", "main", "got")
    /\ stack' = [stack EXCEPT !["client"] = <<Act("main", "idle", "", <<>>, 0)>>]
    /\ trace' = [p \in Procs |-> <<>>]
    /\ UNCHANGED <<unused, pipe, closed, status, failure, pending, ncalls, others, process>>

\* ------------------------------------------------------ PipeConnection.reval
\* req_num = self._get_new_req_num(): pops an arbitrary unused number.
\* (variant: the number is handed out but stays in the set)
_get_new_req_num_peek(p, n) == unused' = unused

_get_new_req_num(p, n) == unused' = [unused EXCEPT ![p] = @ \ {n}]

RevalAlloc(p) ==
    /\ At(p, "reval", "alloc")
    /\ \E n \in unused[p] :
        /\ _get_new_req_num(p, n)
        /\ stack' = [stack EXCEPT ![p] =
                        Append(Rest(p), [Top(p) EXCEPT !.req = n, !.pc = "putreq",
                                                       !.pre = unused[p]])]
    /\ UNCHANGED <<pipe, closed, status, failure, trace, pending, ncalls, others, process>>

\* (variant: with nothing left the quit number is handed out once more)
RevalExhausted_reuse(p) ==
    /\ At(p, "reval", "alloc")
    /\ unused[p] = {}
    /\ stack' = [stack EXCEPT ![p] =
                    Append(Rest(p), [Top(p) EXCEPT !.req = QuitReqNum, !.pc = "putreq"])]
    /\ UNCHANGED <<unused, pipe, closed, status, failure, trace, pending, ncalls, others, process>>

\* _get_new_req_num with nothing left: ConnectionError.
RevalExhausted(p) ==
    /\ At(p, "reval", "alloc")
    /\ unused[p] = {}
    /\ Raise(p, Exc("ConnectionError"))
    /\ UNCHANGED <<unused, pipe, trace, pending, ncalls, others, process>>

\* self._put(ConnectionRequest(function_string, len(args)), req_num)
RevalPutRequest(p) ==
    /\ At(p, "reval", "putreq")
    /\ IF CanWrite(p)
       THEN /\ Write(p, Frame("o", Top(p).req, Request(Top(p).fs, Len(Top(p).args))),
                  "request")
            /\ stack' = [stack EXCEPT ![p] =
                            Append(Rest(p), [Top(p) EXCEPT !.pc = "putarg", !.i = 1])]
            /\ UNCHANGED <<closed, status, failure>>
       ELSE /\ Raise(p, WriteError(p))
            /\ UNCHANGED <<pipe, trace, pending>>
    /\ UNCHANGED <<unused, ncalls, others, process>>

\* (variant: the arguments go out last first)
ArgFrame_reversed(p) ==
    Frame("o", Top(p).req, Top(p).args[Len(Top(p).args) + 1 - Top(p).i])

\* for arg in args: self._put(arg, req_num)
ArgFrame(p) == Frame("o", Top(p).req, Top(p).args[Top(p).i])

RevalPutArg(p) ==
    /\ At(p, "reval", "putarg")
    /\ Top(p).i <= Len(Top(p).args)
    /\ IF CanWrite(p)
       THEN /\ Write(p, ArgFrame(p), "arg")
            /\ stack' = [stack EXCEPT ![p] =
                            Append(Rest(p), [Top(p) EXCEPT !.i = @ + 1])]
            /\ UNCHANGED <<closed, status, failure>>
       ELSE /\ Raise(p, WriteError(p))
            /\ UNCHANGED <<pipe, trace, pending>>
    /\ UNCHANGED <<unused, ncalls, others, process>>

\* (variant: reval does not wait for the response)
RevalWait_nowait(p) ==
    /\ At(p, "reval", "putarg")
    /\ Top(p).i > Len(Top(p).args)
    /\ stack' = [stack EXCEPT ![p] =
                    Append(Rest(p), [Top(p) EXCEPT !.pc = "gotresp"])]
    /\ UNCHANGED <<unused, pipe, closed, status, failure, trace, pending, ncalls, others, process>>

\* result = self._get_response(req_num)
RevalWait(p) ==
    /\ At(p, "reval", "putarg")
    /\ Top(p).i > Len(Top(p).args)
    /\ stack' = [stack EXCEPT ![p] =
                    Append(Rest(p), [Top(p) EXCEPT !.pc = "waiting"])
                    \o <<Act("_get_response", "get", "", <<>>, Top(p).req)>>]
    /\ UNCHANGED <<unused, pipe, closed, status, failure, trace, pending, ncalls, others, process>>

\* self.unused_request_numbers.add(req_num)
\* (variant: the number is never given back)
RevalRelease_dropped(p) == unused' = unused

RevalRelease(p) == unused' = [unused EXCEPT ![p] = @ \cup {Top(p).req}]

RevalAdd(p) ==
    /\ At(p, "reval", "gotresp")
    /\ RevalRelease(p)
    /\ stack' = [stack EXCEPT ![p] = Append(Rest(p), [Top(p) EXCEPT !.pc = "ret"])]
    /\ UNCHANGED <<pipe, closed, status, failure, trace, pending, ncalls, others, process>>

\* (variant: the numeric code is left as the sender set it)
Translate_asis(p, result) == result

\* if isinstance(result, OSError) and hasattr(result, "errno_str"):
\*     result.errno = getattr(errno, result.errno_str, result.errno)
Translate(p, result) ==
    IF result.kind = "exception" /\ result.name = "OSError" /\ result.errno_str # ""
    THEN [result EXCEPT !.n = errno_getattr(p, result.errno_str, result.n)]
    ELSE result

\* isinstance(result, Exception), or SystemExit, or KeyboardInterrupt
Reraised(result) ==
    /\ result.kind = "exception"
    /\ result.name \notin BaseOnly \/ result.name \in {"SystemExit", "KeyboardInterrupt"}

\* raise result / return result
RevalReturn(p) ==
    /\ At(p, "reval", "ret")
    /\ IF Reraised(Top(p).res)
       THEN RaiseFromCallee(p, Translate(p, Top(p).res))
       ELSE /\ stack' = [stack EXCEPT ![p] = ReturnStack(stack[p], Top(p).res)]
            /\ UNCHANGED <<closed, status, failure>>
    /\ UNCHANGED <<unused, pipe, trace, pending, ncalls, others, process>>

\* ----------------------------------------------------- PipeConnection._close
\* _close is the last statement of quit and of the quit branch of
\* _get_response: the stack once _close is over.
CloseDone(p) ==
    IF Top(p).fn = "quit"
    THEN Append(SubSeq(Rest(p), 1, Len(Rest(p)) - 1),
                [Rest(p)[Len(Rest(p))] EXCEPT !.pc = "done"])
    ELSE ReturnStack(stack[p], NoneObj)

\* super()._close() has closed both pipes; if self.process: reap the child
ClosePipes(p) ==
    IF process[p].state # "none"
    THEN Append(Rest(p), [Top(p) EXCEPT !.pc = "wait"])
    ELSE CloseDone(p)

AtClose(p, pc) == Running(p) /\ Top(p).fn \in {"quit", "_get_response"} /\ Top(p).pc = pc
Called(p, call) == [process EXCEPT ![p].calls = Append(@, call)]

\* self.process.wait(timeout=5) returns: the child has exited
CloseWait(p) ==
    /\ AtClose(p, "wait")
    /\ process[p].state = "exited"
    /\ process' = Called(p, "wait")
    /\ stack' = [stack EXCEPT ![p] = CloseDone(p)]
    /\ UNCHANGED <<unused, pipe, closed, status, failure, trace, pending, ncalls, others>>

\* except subprocess.TimeoutExpired: the child was still running
CloseTimeout(p) ==
    /\ AtClose(p, "wait")
    /\ process[p].state = "alive"
    /\ process' = [process EXCEPT ![p].calls = @ \o <<"wait", "TimeoutExpired">>]
    /\ stack' = [stack EXCEPT ![p] = Append(Rest(p), [Top(p) EXCEPT !.pc = "terminate"])]
    /\ UNCHANGED <<unused, pipe, closed, status, failure, trace, pending, ncalls, others>>

\* self.process.terminate(); time.sleep(1): the child may or may not exit
CloseTerminate(p) ==
    /\ AtClose(p, "terminate")
    /\ \E st \in {process[p].state, "exited"} :
          process' = [Called(p, "terminate") EXCEPT ![p].state = st]
    /\ stack' = [stack EXCEPT ![p] = Append(Rest(p), [Top(p) EXCEPT !.pc = "poll"])]
    /\ UNCHANGED <<unused, pipe, closed, status, failure, trace, pending, ncalls, others>>

\* (variant: kill() whatever poll() says)
StillAlive_any(p) == process[p].state # "none"

\* if self.process.poll() is None:
StillAlive(p) == process[p].state = "alive"

\* self.process.kill(); time.sleep(1)
ClosePoll(p) ==
    /\ AtClose(p, "poll")
    /\ process' = IF StillAlive(p)
                  THEN [Called(p, "kill") EXCEPT ![p].state = "exited"]
                  ELSE process
    /\ stack' = [stack EXCEPT ![p] = CloseDone(p)]
    /\ UNCHANGED <<unused, pipe, closed, status, failure, trace, pending, ncalls, others>>

\* The child exits by itself once the server's end of the pipes is closed.
ChildExit(p) ==
    /\ process[p].state = "alive"
    /\ closed[Peer(p)]
    /\ process' = [process EXCEPT ![p].state = "exited"]
    /\ UNCHANGED <<unused, pipe, stack, closed, status, failure, trace, pending, ncalls, others>>

\* ----------------------------------------------- PipeConnection._get_response
\* req_num, object = self._get() raised ConnectionQuit: a q frame was read.
GetResponseQuit(p) ==
    /\ At(p, "_get_response", "get")
    /\ CanRead(p)
    /\ Head(pipe[p]).tag = "q"
    /\ Read(p, "quit")
    /\ stack' = [stack EXCEPT ![p] = Append(Rest(p), [Top(p) EXCEPT !.pc = "quit_ack"])]
    /\ UNCHANGED <<unused, closed, status, failure, ncalls, others, process>>

\* if req_num == desired_req_num:
Matches(p, f) == f.req = Top(p).req

\* if req_num == desired_req_num: return object
GetResponseMatch(p) ==
    /\ At(p, "_get_response", "get")
    /\ CanRead(p)
    /\ Head(pipe[p]).tag # "q"
    /\ Matches(p, Head(pipe[p]))
    /\ Read(p, "response")
    /\ stack' = [stack EXCEPT ![p] = ReturnStack(stack[p], Head(pipe[p]).obj)]
    /\ UNCHANGED <<unused, closed, status, failure, ncalls, others, process>>

\* (variant: a frame with another number is read and dropped, the wait
\* goes on without answering it)
GetResponseDispatch_dropped(p) ==
    /\ At(p, "_get_response", "get")
    /\ CanRead(p)
    /\ Head(pipe[p]).tag # "q"
    /\ ~Matches(p, Head(pipe[p]))
    /\ Read(p, "request")
    /\ UNCHANGED <<unused, stack, closed, status, failure, ncalls, others, process>>

\* (variant: a frame that is no request is read and ignored, the wait goes on)
GetResponseDispatch_lenient(p) ==
    /\ At(p, "_get_response", "get")
    /\ CanRead(p)
    /\ Head(pipe[p]).tag # "q"
    /\ ~Matches(p, Head(pipe[p]))
    /\ Read(p, "request")
    /\ LET f == Head(pipe[p])
       IN  IF f.obj.kind = "request"
           THEN /\ stack' = [stack EXCEPT ![p] =
                       Append(Rest(p), [Top(p) EXCEPT !.pc = "answering"])
                       \o <<[Act("_answer_request", "remove", f.obj.name, <<>>, f.req)
                               EXCEPT !.nargs = f.obj.n]>>]
                /\ UNCHANGED <<closed, status, failure>>
           ELSE UNCHANGED <<stack, closed, status, failure>>
    /\ UNCHANGED <<unused, ncalls, others, process>>

\* else: assert isinstance(object, ConnectionRequest);
\*       self._answer_request(object, req_num)
GetResponseDispatch(p) ==
    /\ At(p, "_get_response", "get")
    /\ CanRead(p)
    /\ Head(pipe[p]).tag # "q"
    /\ ~Matches(p, Head(pipe[p]))
    /\ Read(p, "request")
    /\ LET f == Head(pipe[p])
       IN  IF f.obj.kind = "request"
           THEN /\ stack' = [stack EXCEPT ![p] =
                       Append(Rest(p), [Top(p) EXCEPT !.pc = "answering"])
                       \o <<[Act("_answer_request", "remove", f.obj.name, <<>>, f.req)
                               EXCEPT !.nargs = f.obj.n]>>]
                /\ UNCHANGED <<closed, status, failure>>
           ELSE Raise(p, Exc("AssertionError"))
    /\ UNCHANGED <<unused, ncalls, others, process>>

\* except ConnectionQuit: self._put("quitting", self._get_new_req_num())
GetResponseQuitAck(p) ==
    /\ At(p, "_get_response", "quit_ack")
    /\ IF unused[p] = {}
       THEN /\ Raise(p, Exc("ConnectionError"))
            /\ UNCHANGED <<unused, pipe, trace, pending>>
       ELSE \E n \in unused[p] :
            /\ _get_new_req_num(p, n)
            /\ IF CanWrite(p)
               THEN /\ Write(p, Frame("o", n, Quitting), "ack")
                    /\ stack' = [stack EXCEPT ![p] =
                                   Append(Rest(p), [Top(p) EXCEPT !.pc = "close",
                                                                  !.ack = n])]
                    /\ UNCHANGED <<closed, status, failure>>
               ELSE /\ Raise(p, WriteError(p))
                    /\ UNCHANGED <<pipe, trace, pending>>
    /\ UNCHANGED <<ncalls, others, process>>

\* self._close(); return
GetResponseClose(p) ==
    /\ At(p, "_get_response", "close")
    /\ closed' = [closed EXCEPT ![p] = TRUE]
    /\ stack' = [stack EXCEPT ![p] = ClosePipes(p)]
    /\ UNCHANGED <<unused, pipe, status, failure, trace, pending, ncalls, others, process>>

\* --------------------------------------------- PipeConnection._answer_request
\* self.unused_request_numbers.remove(req_num)
\* (variant: the inbound number is not claimed)
AnswerClaim_skipped(p) == unused' = unused

\* (variant: some unused number is claimed, as the allocator would)
AnswerClaim_any(p) == unused' = [unused EXCEPT ![p] = @ \ {CHOOSE n \in @ : TRUE}]

AnswerClaim(p) == unused' = [unused EXCEPT ![p] = @ \ {Top(p).req}]

AnswerRemove(p) ==
    /\ At(p, "_answer_request", "remove")
    /\ IF Top(p).req \in unused[p]
       THEN /\ AnswerClaim(p)
            /\ stack' = [stack EXCEPT ![p] =
                   Append(Rest(p), [Top(p) EXCEPT
                       !.pc = IF Top(p).nargs = 0 THEN "vet" ELSE "getarg"])]
            /\ UNCHANGED <<closed, status, failure>>
       ELSE /\ Raise(p, Exc("KeyError"))
            /\ UNCHANGED unused
    /\ UNCHANGED <<pipe, trace, pending, ncalls, others, process>>

\* for i in range(request.num_args): arg_req_num, arg = self._get();
\*     assert arg_req_num == req_num; argument_list.append(arg)
AnswerGetArg(p) ==
    /\ At(p, "_answer_request", "getarg")
    /\ CanRead(p)
    /\ Read(p, "arg")
    /\ LET f == Head(pipe[p])
       IN  IF f.tag = "q" THEN Raise(p, Exc("ConnectionQuit"))
           ELSE IF f.req # Top(p).req THEN Raise(p, Exc("AttributeError"))
           ELSE /\ stack' = [stack EXCEPT ![p] =
                       Append(Rest(p), [Top(p) EXCEPT
                           !.args = Append(@, f.obj),
                           !.pc = IF Len(Top(p).args) + 1 = Top(p).nargs
                                  THEN "vet" ELSE "getarg"])]
                /\ UNCHANGED <<closed, status, failure>>
    /\ UNCHANGED <<unused, ncalls, others, process>>

\* (variant: the verdict of the gate is not acted upon)
AnswerVet_unchecked(p) ==
    /\ At(p, "_answer_request", "vet")
    /\ stack' = [stack EXCEPT ![p] =
            Append(Rest(p), [Top(p) EXCEPT !.vetted = Len(Top(p).args),
                                           !.pc = "resolve"])]
    /\ UNCHANGED <<unused, pipe, closed, status, failure, trace, pending, ncalls, others, process>>

\* try: Security.vet_request(request, argument_list)
AnswerVet(p) ==
    /\ At(p, "_answer_request", "vet")
    /\ IF vet_request(Top(p).fs, Top(p).args)
       THEN stack' = [stack EXCEPT ![p] =
                Append(Rest(p), [Top(p) EXCEPT !.vetted = Len(Top(p).args),
                                               !.pc = "resolve"])]
       ELSE stack' = [stack EXCEPT ![p] =
                Unwind(Append(Rest(p), [Top(p) EXCEPT !.vetted = Len(Top(p).args)]),
                       Exc("Violation"))]
    /\ UNCHANGED <<unused, pipe, closed, status, failure, trace, pending, ncalls, others, process>>

\* result = self._eval(request.function_string)(*argument_list): the name is
\* resolved and the callable entered, or _eval raises NameError.
AnswerResolve(p) ==
    /\ At(p, "_answer_request", "resolve")
    /\ IF EvalResolves(Top(p).fs)
       THEN /\ stack' = [stack EXCEPT ![p] =
                Append(Rest(p), [Top(p) EXCEPT !.resolved = TRUE, !.pc = "calling"])
                \o <<Act("callable", "start", Top(p).fs, Top(p).args, Top(p).req)>>]
            /\ trace' = [trace EXCEPT ![p] =
                              Append(@, Called_(p, Top(p).fs, Top(p).args, Top(p).req))]
       ELSE /\ stack' = [stack EXCEPT ![p] = Unwind(stack[p], Exc("NameError"))]
            /\ UNCHANGED trace
    /\ UNCHANGED <<unused, pipe, closed, status, failure, pending, ncalls, others, process>>

\* if isinstance(result, OSError) and result.errno:
\*     result.errno_str = errno.errorcode.get(result.errno, "EUNKWN")
Marshal(p, result) ==
    IF result.name = "OSError" /\ result.n # 0
    THEN [result EXCEPT !.errno_str = errorcode_get(p, result.n)]
    ELSE result

\* (variant: every failure is handed back for the response)
_extract_exception_all(p) ==
    /\ stack' = [stack EXCEPT ![p] =
            Append(Rest(p), [Top(p) EXCEPT !.res = Marshal(p, Top(p).res), !.pc = "put"])]
    /\ UNCHANGED <<closed, status, failure>>

\* except BaseException: result = self._extract_exception()
_extract_exception(p) ==
    LET result == Marshal(p, Top(p).res)
    IN  IF is_routine_fatal(result)
        THEN Raise(p, result)
        ELSE /\ stack' = [stack EXCEPT ![p] =
                    Append(Rest(p), [Top(p) EXCEPT !.res = result, !.pc = "put"])]
             /\ UNCHANGED <<closed, status, failure>>

AnswerExtract(p) ==
    /\ At(p, "_answer_request", "extract")
    /\ _extract_exception(p)
    /\ UNCHANGED <<unused, pipe, trace, pending, ncalls, others, process>>

\* self._put(result, req_num)
AnswerPut(p) ==
    /\ At(p, "_answer_request", "put")
    /\ IF CanWrite(p)
       THEN /\ Write(p, Frame("o", Top(p).req, Top(p).res), "response")
            /\ stack' = [stack EXCEPT ![p] =
                   Append(Rest(p), [Top(p) EXCEPT !.pc = "add", !.nresp = @ + 1])]
            /\ UNCHANGED <<closed, status, failure>>
       ELSE /\ Raise(p, WriteError(p))
            /\ UNCHANGED <<pipe, trace, pending>>
    /\ UNCHANGED <<unused, ncalls, others, process>>

\* (variant: the inbound number is not given back)
AnswerRelease_kept(p) == unused' = unused

\* self.unused_request_numbers.add(req_num), and back to the loop
AnswerRelease(p) == unused' = [unused EXCEPT ![p] = @ \cup {Top(p).req}]

\* (variant: _get_response returns once the inbound request is answered)
AnswerAdd_leave(p) ==
    /\ At(p, "_answer_request", "add")
    /\ AnswerRelease(p)
    /\ stack' = [stack EXCEPT ![p] = ReturnStack(Rest(p), NoneObj)]
    /\ UNCHANGED <<pipe, closed, status, failure, trace, pending, ncalls, others, process>>

AnswerAdd(p) ==
    /\ At(p, "_answer_request", "add")
    /\ AnswerRelease(p)
    /\ stack' = [stack EXCEPT ![p] = ReturnStack(stack[p], NoneObj)]
    /\ UNCHANGED <<pipe, closed, status, failure, trace, pending, ncalls, others, process>>

\* ------------------------------------------------- the dispatched callables
\* pow(x, y), os.getpid(), os.system(), callback(0): no call across the pipe
LeafResult(p, fs, args) ==
    CASE fs = "pow" -> Value(Pow(args[1].n, args[2].n))
      [] fs = "os.getpid" -> Value(Pid(p))
      [] OTHER -> Value(0)

CallableLeaf(p) ==
    /\ At(p, "callable", "start")
    /\ Top(p).fs \notin {"fail", "RedirectedRun"}
    /\ Top(p).fs = "callback" => Top(p).args[1].n = 0
    /\ stack' = [stack EXCEPT ![p] =
                    ReturnStack(stack[p], LeafResult(p, Top(p).fs, Top(p).args))]
    /\ UNCHANGED <<unused, pipe, closed, status, failure, trace, pending, ncalls, others, process>>

\* callback(d), d > 0: return conn.callback(d - 1) + 1, conn the pipe peer
CallableCallback(p) ==
    /\ At(p, "callable", "start")
    /\ Top(p).fs = "callback"
    /\ Top(p).args[1].n > 0
    /\ stack' = [stack EXCEPT ![p] =
                    Append(Rest(p), [Top(p) EXCEPT !.pc = "called"])
                    \o <<Act("reval", "alloc", "callback",
                             <<Value(Top(p).args[1].n - 1)>>, 0)>>]
    /\ UNCHANGED <<unused, pipe, closed, status, failure, trace, pending, ncalls, others, process>>

\* fail(exc): raise exc
CallableRaise(p) ==
    /\ At(p, "callable", "start")
    /\ Top(p).fs = "fail"
    /\ stack' = [stack EXCEPT ![p] = Unwind(stack[p], Top(p).args[1])]
    /\ UNCHANGED <<unused, pipe, closed, status, failure, trace, pending, ncalls, others, process>>

\* (variant: a conn_number naming the local connection runs func locally)
RedirectedRun_local(p) ==
    LET conn == connection_dict(p, Top(p).args[1].n)
        called == Append(Rest(p), [Top(p) EXCEPT !.pc = "called"])
        func == Top(p).args[2].name
        args == SubSeq(Top(p).args, 3, Len(Top(p).args))
    IN  CASE conn = "none" -> Unwind(stack[p], Exc("KeyError"))
          [] conn = "local" ->
               Append(Rest(p), Act("callable", "start", func, args, Top(p).req))
          [] conn = "pipe" -> called \o <<Act("reval", "alloc", func, args, 0)>>
          [] OTHER ->
               called \o <<Act("reval", "alloc", "RedirectedRun", Top(p).args, 0)>>

\* RedirectedRun(conn_number, func, *args):
\*     conn = specifics.connection_dict[conn_number]   (KeyError)
\*     assert conn is not specifics.local_connection, "...".format(func.__name__)
\*         (func is a string: building the message raises AttributeError)
\*     return conn.reval(func, *args)
\* where reval of a RedirectedConnection is
\*     self.routing_conn.reval("RedirectedRun", self.conn_number, func, *args)
RedirectedRun(p) ==
    LET conn == connection_dict(p, Top(p).args[1].n)
        called == Append(Rest(p), [Top(p) EXCEPT !.pc = "called"])
    IN  CASE conn = "none" -> Unwind(stack[p], Exc("KeyError"))
          [] conn = "local" -> Unwind(stack[p], Exc("AttributeError"))
          [] conn = "pipe" ->
               called \o <<Act("reval", "alloc", Top(p).args[2].name,
                              SubSeq(Top(p).args, 3, Len(Top(p).args)), 0)>>
          [] OTHER ->
               called \o <<Act("reval", "alloc", "RedirectedRun", Top(p).args, 0)>>

CallableRedirectedRun(p) ==
    /\ At(p, "callable", "start")
    /\ Top(p).fs = "RedirectedRun"
    /\ stack' = [stack EXCEPT ![p] = RedirectedRun(p)]
    /\ UNCHANGED <<unused, pipe, closed, status, failure, trace, pending, ncalls, others, process>>

\* return conn.reval(func, *args)
CallableRedirectedReturn(p) ==
    /\ At(p, "callable", "returned")
    /\ Top(p).fs = "RedirectedRun"
    /\ stack' = [stack EXCEPT ![p] = ReturnStack(stack[p], Top(p).res)]
    /\ UNCHANGED <<unused, pipe, closed, status, failure, trace, pending, ncalls, others, process>>

CallableCallbackReturn(p) ==
    /\ At(p, "callable", "returned")
    /\ Top(p).fs = "callback"
    /\ stack' = [stack EXCEPT ![p] = ReturnStack(stack[p], Value(Top(p).res.n + 1))]
    /\ UNCHANGED <<unused, pipe, closed, status, failure, trace, pending, ncalls, others, process>>

\* ------------------------------------------------------- PipeConnection.quit
ClientQuit ==
    /\ DriverIdle
    /\ stack' = [stack EXCEPT !["client"] =
                    Append(Rest("client"), [Top("client") EXCEPT !.pc = "quitting"])
                    \o <<Act("quit", "putquit", "", <<>>, QuitReqNum)>>]
    /\ UNCHANGED <<unused, pipe, closed, status, failure, trace, pending, ncalls, others, process>>

\* (variant: the quit frame goes out under another number)
_putquit_other(p) == Write(p, Frame("q", QuitReqNum - 1, Obj("bytes", "", 0)), "quit")

\* self._putquit(): self._write("q", b"", 255)
_putquit(p) == Write(p, Frame("q", QuitReqNum, Obj("bytes", "", 0)), "quit")

QuitPut(p) ==
    /\ At(p, "quit", "putquit")
    /\ IF CanWrite(p)
       THEN /\ _putquit(p)
            /\ stack' = [stack EXCEPT ![p] =
                            Append(Rest(p), [Top(p) EXCEPT !.pc = "getack"])]
            /\ UNCHANGED <<closed, status, failure>>
       ELSE /\ Raise(p, WriteError(p))
            /\ UNCHANGED <<pipe, trace, pending>>
    /\ UNCHANGED <<unused, ncalls, others, process>>

\* (variant: quit does not read the acknowledgement before closing)
QuitGetAck_skipped(p) ==
    /\ At(p, "quit", "getack")
    /\ stack' = [stack EXCEPT ![p] = Append(Rest(p), [Top(p) EXCEPT !.pc = "close"])]
    /\ UNCHANGED <<unused, pipe, closed, status, failure, trace, pending, ncalls, others, process>>

\* self._get(): the acknowledgement, whatever its number
QuitGetAck(p) ==
    /\ At(p, "quit", "getack")
    /\ CanRead(p)
    /\ Read(p, "ack")
    /\ IF Head(pipe[p]).tag = "q"
       THEN Raise(p, Exc("ConnectionQuit"))
       ELSE /\ stack' = [stack EXCEPT ![p] =
                            Append(Rest(p), [Top(p) EXCEPT !.pc = "close"])]
            /\ UNCHANGED <<closed, status, failure>>
    /\ UNCHANGED <<unused, ncalls, others, process>>

\* self._close()
QuitClose(p) ==
    /\ At(p, "quit", "close")
    /\ closed' = [closed EXCEPT ![p] = TRUE]
    /\ stack' = [stack EXCEPT ![p] = ClosePipes(p)]
    /\ UNCHANGED <<unused, pipe, status, failure, trace, pending, ncalls, others, process>>

\* ----------------------------------------------------- PipeConnection.Server
\* specifics.connections.append(self); self._get_response(-1)
ServerStart ==
    /\ At("server", "Server", "start")
    /\ specifics' = [specifics EXCEPT
                       !.connections = Append(@, ConnObj("PipeConnection", 0))]
    /\ stack' = [stack EXCEPT !["server"] =
                    <<[Top("server") EXCEPT !.pc = "serving"],
                      Act("_get_response", "get", "", <<>>, ServerDesired)>>]
    /\ UNCHANGED <<unused, pipe, closed, status, failure, trace, pending, ncalls, process>>
    /\ UNCHANGED <<globals, vfiles, streams, outpipe, outcome, logger, repo>>

\* return consts.RET_CODE_OK
ServerReturn ==
    /\ At("server", "Server", "returned")
    /\ status' = [status EXCEPT !["server"] = "returned"]
    /\ stack' = [stack EXCEPT !["server"] = <<>>]
    /\ UNCHANGED <<unused, pipe, closed, trace, pending, ncalls, others, process, failure>>

\* ------------------------------------------------ reading a pipe at its end
\* self.inpipe.read(9) returns fewer than 9 bytes once the other process has
\* closed the pipe and nothing is left in it: ConnectionReadError.
AtRead(p) ==
    \/ At(p, "_get_response", "get")
    \/ At(p, "_answer_request", "getarg")
    \/ At(p, "quit", "getack")

ReadEOF(p) ==
    /\ AtRead(p)
    /\ ~closed[p]
    /\ pipe[p] = <<>>
    /\ closed[Peer(p)]
    /\ Raise(p, Exc("ConnectionReadError"))
    /\ UNCHANGED <<unused, pipe, trace, pending, ncalls, others, process>>

\* ------------------------------------------------------------ specification
Step(p) ==
    \/ RevalAlloc(p) \/ RevalExhausted(p) \/ RevalPutRequest(p) \/ RevalPutArg(p)
    \/ RevalWait(p) \/ RevalAdd(p) \/ RevalReturn(p)
    \/ GetResponseQuit(p) \/ GetResponseMatch(p) \/ GetResponseDispatch(p)
    \/ GetResponseQuitAck(p) \/ GetResponseClose(p)
    \/ AnswerRemove(p) \/ AnswerGetArg(p) \/ AnswerVet(p) \/ AnswerResolve(p)
    \/ AnswerExtract(p) \/ AnswerPut(p) \/ AnswerAdd(p)
    \/ CallableLeaf(p) \/ CallableCallback(p) \/ CallableCallbackReturn(p)
    \/ CallableRaise(p) \/ CallableRedirectedRun(p) \/ CallableRedirectedReturn(p)
    \/ QuitPut(p) \/ QuitGetAck(p) \/ QuitClose(p)
    \/ CloseWait(p) \/ CloseTimeout(p) \/ CloseTerminate(p) \/ ClosePoll(p)
    \/ ReadEOF(p)

Next ==
    \/ ClientCall \/ ClientCallRouted \/ ClientRecord \/ ClientQuit
    \/ ServerStart \/ ServerReturn
    \/ \E p \in Procs : Step(p)
    \/ \E p \in Procs : ChildExit(p)

Spec == Init /\ [][Next]_vars

\* A running process takes its next step whenever it can; the driver of the
\* client is free to stop calling.
FairSpec ==
    /\ Spec
    /\ \A p \in Procs : WF_vars(Step(p))
    /\ WF_vars(ServerStart) /\ WF_vars(ServerReturn) /\ WF_vars(ClientRecord)

\* ------------------------------------------- the name resolver on its own
\* the function strings asked for, the names assigned to and deleted on the
\* local connection and the objects assigned
FuncStrings ==
    {<<"pow">>, <<"pow", "__call__">>, <<"pow", "nosuch">>, <<"os">>,
     <<"os", "getpid">>, <<"os", "path", "join">>, <<"os", "nosuch">>,
     <<"os", "path", "nosuch">>, <<"nosuch">>, <<"nosuch", "getpid">>,
     <<"evil">>, <<"evil", "join">>, <<"map_filenames">>, <<"">>}
AttrNames == {"os", "map_filenames", "evil"}
AttrValues == {<<"os", "path">>, <<"os", "system">>}
pipevars ==
    <<unused, pipe, stack, closed, status, trace, pending, ncalls, failure, process>>

\* an inbound request, or reval on the local connection, resolves a name
EvalRequest ==
    /\ \E funcstring \in FuncStrings : outcome' = _eval(globals, funcstring)
    /\ UNCHANGED <<pipevars, session, globals, vfiles, streams, outpipe>>

\* LocalConnection.__setattr__: self.globals[name] = value
LocalSetattr ==
    /\ \E name \in AttrNames : \E value \in AttrValues :
          /\ globals' = [n \in DOMAIN globals \cup {name} |->
                           IF n = name THEN value ELSE globals[n]]
          /\ outcome' = Outcome("__setattr__", <<name>>, "return", value)
    /\ UNCHANGED <<pipevars, session, vfiles, streams, outpipe>>

\* LocalConnection.__delattr__: del self.globals[name]
LocalDelattr ==
    /\ \E name \in AttrNames :
          IF name \in DOMAIN globals
          THEN /\ globals' = [n \in DOMAIN globals \ {name} |-> globals[n]]
               /\ outcome' = Outcome("__delattr__", <<name>>, "return", <<>>)
          ELSE /\ globals' = globals
               /\ outcome' = Outcome("__delattr__", <<name>>, "raise", "KeyError")
    /\ UNCHANGED <<pipevars, session, vfiles, streams, outpipe>>

\* a connection is constructed: Connection.__init__ calls import_modules
NewConnection ==
    /\ globals' = import_modules(globals)
    /\ outcome' = Outcome("__init__", <<>>, "return", <<>>)
    /\ UNCHANGED <<pipevars, session, vfiles, streams, outpipe>>

EvalNext == EvalRequest \/ LocalSetattr \/ LocalDelattr \/ NewConnection

EvalSpec == Init /\ [][EvalNext]_vars

\* --------------------------------------------------- start-up on its own
\* LocalConnection() is evaluated again after the module was imported
NewLocalConnection ==
    /\ LET made == Construct(specifics, globals)
       IN  /\ specifics' = made.specifics
           /\ globals' = made.globals
           /\ outcome' = Outcome("LocalConnection", <<>>, made.kind, made.val)
    /\ UNCHANGED <<pipevars, logger, repo, vfiles, streams, outpipe>>

StartNext ==
    \/ NewLocalConnection \/ LocalSetattr \/ LocalDelattr \/ NewConnection
    \/ ServerStart

StartSpec == Init /\ [][StartNext]_vars

\* ------------------------------------------------ virtual files on their own
Lengths == {None, 2}
Buffers == {<<9>>}
evalvars == <<pipevars, session, globals, outpipe>>

\* _putfile of a file object, and _get of the frame on the other side: the
\* handle made there holds the id that was written
PutFile ==
    /\ vfiles.counter + 1 < MaxFiles
    /\ \E fp \in Files :
          /\ vfiles' = new(vfiles, fp)
          /\ outcome' = Outcome("_putfile", <<fp>>, "return",
                                 Val(_b2i(_i2b(Num(vfiles'.counter), 0))))
    /\ UNCHANGED <<evalvars, streams>>

\* read of a handle: one reval of VirtualFile.readfromid with its id
ReadHandle ==
    /\ \E id \in 0..MaxFiles : \E length \in Lengths :
          LET r == readfromid(vfiles, streams, id, length)
          IN  /\ vfiles' = r.vf
              /\ streams' = r.st
              /\ outcome' = Outcome("VirtualFile.readfromid", <<id, length>>,
                                     r.kind, r.val)
    /\ UNCHANGED evalvars

\* write of a handle: one reval of VirtualFile.writetoid
WriteHandle ==
    /\ \E id \in 0..MaxFiles : \E buffer \in Buffers :
          /\ id \in DOMAIN vfiles.files
                => Len(streams[vfiles.files[id]].written) < MaxWritten
          /\ LET r == writetoid(vfiles, streams, id, buffer)
             IN  /\ vfiles' = r.vf
                 /\ streams' = r.st
                 /\ outcome' = Outcome("VirtualFile.writetoid", <<id>>,
                                        r.kind, r.val)
    /\ UNCHANGED evalvars

\* close of a handle, or closebyid called on the registering side
CloseHandle ==
    /\ \E id \in 0..MaxFiles : \E fails \in BOOLEAN :
          LET r == closebyid(vfiles, streams, id, fails)
          IN  /\ vfiles' = r.vf
              /\ streams' = r.st
              /\ outcome' = Outcome("VirtualFile.closebyid", <<id>>,
                                     r.kind, r.val)
    /\ UNCHANGED evalvars

FileNext == PutFile \/ ReadHandle \/ WriteHandle \/ CloseHandle

FileSpec == Init /\ [][FileNext]_vars

\* ------------------------------------------------------ frames on their own
\* One direction of a pipe connection: outpipe.bytes are the bytes written
\* and not yet read, closed when the writing end is, done when the reader
\* has left _get by an exception; frames (history) are the frames written
\* whole and not yet read, puts counts the frames written and answered
\* (history) the values handed on.
MaxFrames == 2      \* frames written to the pipe
Big56 == [neg |-> FALSE, mag |-> <<256, 0, 0, 0>>]                 \* 2^56
Big56m == [neg |-> FALSE, mag |-> <<255, 65535, 65535, 65535>>]    \* 2^56 - 1
WireFrame(headerchar, req_num, data) ==
    [headerchar |-> headerchar, req_num |-> req_num, data |-> data]
\* the frames handed to _write: every format character, one that is none,
\* request numbers at and beyond both ends, payloads from empty to 2^56 bytes
WireFrames ==
    {WireFrame(t, 3, Bytes(<<1, 2>>)) : t \in (Tags \ {"c"}) \cup {"x"}}
    \cup {WireFrame("o", n, Bytes(<<7>>)) : n \in {-1, 0, 255, 256}}
    \cup {WireFrame("b", 0, d) : d \in {<<>>, <<[b |-> 0, n |-> Big56m]>>,
                                      <<[b |-> 0, n |-> Big56]>>}}
    \cup {WireFrame("x", 1, <<>>), WireFrame("q", 255, <<>>)}
\* the frames within which the writing process may end
CutFrames == {WireFrame(t, 3, Bytes(<<1, 2>>)) : t \in {"o", "x"}}
wirevars == <<pipevars, session, globals, vfiles, streams>>

\* _write: the header is built, which raises when a number does not fit,
\* then header and data are written
Written(pipe_, f) ==
    LET h == Header(f.headerchar, f.data, f.req_num)
    IN  IF h = OverflowError
        THEN [pipe |-> pipe_,
              out |-> Outcome("_write", f, "raise", "OverflowError")]
        ELSE [pipe |-> [pipe_ EXCEPT !.bytes = @ \o Bytes(h) \o f.data,
                                     !.frames = Append(@, f),
                                     !.puts = @ + 1],
              out |-> Outcome("_write", f, "return", <<>>)]

PutFrame ==
    /\ ~outpipe.closed
    /\ outpipe.puts < MaxFrames
    /\ \E f \in WireFrames :
          /\ outpipe' = Written(outpipe, f).pipe
          /\ outcome' = Written(outpipe, f).out
    /\ UNCHANGED wirevars

\* _putconn: the connection number of the connection is the payload
PutConn ==
    /\ ~outpipe.closed
    /\ outpipe.puts < MaxFrames
    /\ \E conn_number \in 0..MaxConn :
          LET f == WireFrame("c", 5, Bytes(_i2b(Num(conn_number), 0)))
          IN  /\ outpipe' = Written(outpipe, f).pipe
              /\ outcome' = [Written(outpipe, f).out EXCEPT !.op = "_putconn"]
    /\ UNCHANGED wirevars

\* the writing process ends, within a frame or between two
WriterEnds ==
    /\ ~outpipe.closed
    /\ \E f \in CutFrames :
          LET h == Header(f.headerchar, f.data, f.req_num)
          IN  /\ h # OverflowError
              /\ \E k \in 0..(Len(h) + Len(f.data) - 1) :
                    outpipe' = [outpipe EXCEPT
                                  !.bytes = @ \o SubSeq(Bytes(h) \o f.data, 1, k),
                                  !.closed = TRUE]
    /\ outcome' = Outcome("exit", <<>>, "return", <<>>)
    /\ UNCHANGED wirevars

\* _get of the server at the pipe
GetFrame ==
    /\ ~outpipe.done
    /\ LET r == _get(outpipe.bytes, outpipe.closed, "server")
       IN  /\ r.kind # "block"
           /\ outpipe' = [outpipe EXCEPT
                            !.bytes = r.rest,
                            !.frames = IF @ = <<>> THEN @ ELSE Tail(@),
                            !.done = r.kind = "raise"]
           /\ outcome' = Outcome("_get", <<r.fmt, r.req_num, r.length, r.data>>,
                                  r.kind, r.val)
    /\ UNCHANGED wirevars

\* _get_response and _answer_request go on with the value _get returned:
\* it is handed to the caller, or the request is answered
HandleValue ==
    /\ outcome.op = "_get"
    /\ outcome.kind = "return"
    /\ outpipe' = [outpipe EXCEPT !.answered = @ + 1]
    /\ outcome' = Outcome("handled", outcome.arg, "return", <<>>)
    /\ UNCHANGED wirevars

WireNext == PutFrame \/ PutConn \/ WriterEnds \/ GetFrame \/ HandleValue

WireSpec == Init /\ [][WireNext]_vars

\* ------------------------------------------------------ _put on its own
\* A value handed to _put: its type, the attributes it has, the bytes it is
\* (or is pickled to), its connection number and, for a file object, its name.
PutObject(type, attrs, data) ==
    [type |-> type, attrs |-> attrs, data |-> data, conn_number |-> 2, name |-> type]
PutObjects ==
    {PutObject("bytes", {}, Bytes(<<1, 2>>)),
     PutObject("str", {}, Bytes(<<3>>)),
     PutObject("PipeConnection", {}, <<>>),
     PutObject("LocalConnection", {}, <<>>),
     PutObject("QuotedRPath", {}, Bytes(<<4>>)),
     PutObject("RPath", {}, Bytes(<<5>>)),
     PutObject("RORPath", {}, Bytes(<<6>>)),
     PutObject("file", {"read", "close"}, <<>>),
     PutObject("file", {"write", "close"}, <<>>),
     PutObject("file", {"read", "write"}, <<>>),
     PutObject("file", {"read", "close", "__next__", "__iter__"}, <<>>),
     PutObject("iterator", {"__next__", "__iter__"}, <<>>),
     PutObject("iterator", {"__iter__"}, Bytes(<<7>>)),
     PutObject("iterator", {"close", "__next__", "__iter__"}, <<>>)}

\* isinstance: a quoted path is a path with connection, and that a path
\* record; both kinds of connection are connections
isinstance(obj, class) ==
    \/ obj.type = class
    \/ class = "Connection" /\ obj.type \in {"PipeConnection", "LocalConnection"}
    \/ class = "RPath" /\ obj.type = "QuotedRPath"
    \/ class = "RORPath" /\ obj.type \in {"QuotedRPath", "RPath"}
\* hasattr: PipeConnection.__getattr__ answers every name
hasattr(obj, name) == name \in obj.attrs \/ obj.type = "PipeConnection"

\* (variant: the test for a file object comes first)
_put_filefirst(obj) ==
    IF (hasattr(obj, "read") \/ hasattr(obj, "write")) /\ hasattr(obj, "close") THEN "f"
    ELSE IF obj.type = "bytes" THEN "b"
    ELSE IF isinstance(obj, "Connection") THEN "c"
    ELSE IF isinstance(obj, "QuotedRPath") THEN "Q"
    ELSE IF isinstance(obj, "RPath") THEN "R"
    ELSE IF isinstance(obj, "RORPath") THEN "r"
    ELSE IF hasattr(obj, "__next__") /\ hasattr(obj, "__iter__") THEN "i"
    ELSE "o"

\* _put: the format character of the frame written for obj, by the first
\* test of the chain that obj passes
_put(obj) ==
    IF obj.type = "bytes" THEN "b"
    ELSE IF isinstance(obj, "Connection") THEN "c"
    ELSE IF isinstance(obj, "QuotedRPath") THEN "Q"
    ELSE IF isinstance(obj, "RPath") THEN "R"
    ELSE IF isinstance(obj, "RORPath") THEN "r"
    ELSE IF (hasattr(obj, "read") \/ hasattr(obj, "write")) /\ hasattr(obj, "close") THEN "f"
    ELSE IF hasattr(obj, "__next__") /\ hasattr(obj, "__iter__") THEN "i"
    ELSE "o"

\* _put of obj writes one frame: _putfile and _putiter
\* register the file object and write its id, _putconn writes the
\* connection number, the others the bytes or the pickled value
PutValue ==
    /\ ~outpipe.closed
    /\ outpipe.puts < MaxFrames
    /\ \E obj \in PutObjects :
          LET headerchar == _put(obj)
              vf == IF headerchar \in {"f", "i"} THEN new(vfiles, obj.name) ELSE vfiles
              data == IF headerchar \in {"f", "i"} THEN Bytes(_i2b(Num(vf.counter), 0))
                      ELSE IF headerchar = "c"
                      THEN Bytes(_i2b(Num(obj.conn_number), 0))
                      ELSE obj.data
              w == Written(outpipe, WireFrame(headerchar, 7, data))
          IN  /\ vfiles' = vf
              /\ outpipe' = w.pipe
              /\ outcome' = Outcome("_put", obj, "return", headerchar)
    /\ UNCHANGED <<pipevars, session, globals, streams>>

PutNext == PutValue \/ GetFrame

PutSpec == Init /\ [][PutNext]_vars

\* ------------------------------------------------- the call proxy on its own
\* The driver of the client takes attributes of a connection and of what it
\* gets, and calls the result; the call goes as far as its frames are
\* written.  outcome holds the proxy, with the connection and the attribute
\* names taken so far (history).
MaxChain == 3       \* attribute names taken one after the other
ProxyNames == {"os", "getpid"}
ProxyArgs == {<<>>, <<Value(0), Value(1)>>}
\* the connections the driver holds: the pipe to the server and routed ones
ProxyConns ==
    {[class |-> "PipeConnection", conn_number |-> 1]}
    \cup {[class |-> "RedirectedConnection", conn_number |-> k] : k \in 2..MaxConn}

\* PipeConnection.__getattr__ and RedirectedConnection.__getattr__
Connection__getattr__(conn, name) ==
    IF conn.class = "PipeConnection"
    THEN [class |-> "EmulateCallable", conn_number |-> conn.conn_number,
          call_name |-> name]
    ELSE [class |-> "EmulateCallableRedirected", conn_number |-> conn.conn_number,
          call_name |-> name]

\* (variant: the name taken last replaces the names before it)
Emulate__getattr___last(proxy, attr_name) == [proxy EXCEPT !.call_name = attr_name]

\* EmulateCallable.__getattr__ and EmulateCallableRedirected.__getattr__:
\* "%s.%s" % (self.call_name, attr_name)
Emulate__getattr__(proxy, attr_name) ==
    [proxy EXCEPT !.call_name = @ \o "." \o attr_name]

\* __call__ of a proxy: the function string and the arguments of the reval
\* made on the connection, or on the routing connection
Emulate__call__(proxy, args) ==
    IF proxy.class = "EmulateCallable"
    THEN [fs |-> proxy.call_name, args |-> args]
    ELSE [fs |-> "RedirectedRun",
          args |-> <<Value(proxy.conn_number), Str(proxy.call_name)>> \o args]

ProxyGetattr ==
    /\ DriverIdle
    /\ \E conn \in ProxyConns : \E name \in ProxyNames :
          outcome' = Outcome("__getattr__", <<conn, <<name>>>>, "return",
                             Connection__getattr__(conn, name))
    /\ UNCHANGED <<pipevars, session, globals, vfiles, streams, outpipe>>

ProxyChain ==
    /\ DriverIdle
    /\ outcome.op = "__getattr__"
    /\ Len(outcome.arg[2]) < MaxChain
    /\ \E attr_name \in ProxyNames :
          outcome' = Outcome("__getattr__",
                             <<outcome.arg[1], Append(outcome.arg[2], attr_name)>>,
                             "return", Emulate__getattr__(outcome.val, attr_name))
    /\ UNCHANGED <<pipevars, session, globals, vfiles, streams, outpipe>>

ProxyCall ==
    /\ DriverIdle
    /\ outcome.op = "__getattr__"
    /\ ncalls < MaxCalls
    /\ \E args \in ProxyArgs :
          LET call == Emulate__call__(outcome.val, args)
          IN  /\ stack' = [stack EXCEPT !["client"] =
                             Append(Rest("client"),
                                    [Top("client") EXCEPT !.pc = "called",
                                                          !.fs = call.fs,
                                                          !.args = call.args])
                             \o <<Act("reval", "alloc", call.fs, call.args, 0)>>]
              /\ outcome' = Outcome("__call__", <<outcome.arg[1], outcome.arg[2], args>>,
                                     "return", outcome.val)
    /\ ncalls' = ncalls + 1
    /\ UNCHANGED <<unused, pipe, closed, status, failure, trace, pending, process>>
    /\ UNCHANGED <<session, globals, vfiles, streams, outpipe>>

ProxyNext ==
    \/ ProxyGetattr \/ ProxyChain \/ ProxyCall
    \/ \E p \in Procs : RevalAlloc(p) \/ RevalPutRequest(p) \/ RevalPutArg(p)

ProxySpec == Init /\ [][ProxyNext]_vars

\* ----------------------------------------------------- logging on its own
\* The client calls Log.open_logfile(rpath), rpath being held by owner:
\* assert not self.log_file_open; rpath.conn.log.Log.open_logfile_local(rpath)
OpenLogfile ==
    /\ logger.pc[1] = "idle"
    /\ \E owner \in LogPeers : \E fails \in BOOLEAN :
          IF logger.log[0].log_file_open
          THEN /\ logger' = [logger EXCEPT !.calls = <<>>]
               /\ outcome' = Outcome("open_logfile", <<owner>>, "raise", "AssertionError")
          ELSE IF fails
          THEN /\ logger' = [open_logfile_local(logger, owner, TRUE)
                               EXCEPT !.calls = <<>>]
               /\ outcome' = Outcome("open_logfile", <<owner>>, "raise", "LoggerError")
          ELSE /\ logger' = [open_logfile_local(logger, owner, FALSE)
                               EXCEPT !.pc = <<"open", owner, 1>>, !.calls = <<>>]
               /\ outcome' = Outcome("open_logfile_local", <<owner>>, "return", <<>>)
    /\ UNCHANGED <<pipevars, specifics, repo, globals, vfiles, streams, outpipe>>

\* for conn in Globals.connections:
\*     conn.log.Log.open_logfile_allconn(rpath.conn)
OpenLogfileAllconn ==
    /\ logger.pc[1] = "open"
    /\ LET owner == logger.pc[2]
           i == logger.pc[3]
           p == connections(0)[i]
           last == i = Len(connections(0))
       IN  /\ logger' = [open_logfile_allconn(logger, p, owner) EXCEPT
                           !.pc = IF last THEN <<"idle", 0, 0>>
                                  ELSE <<"open", owner, i + 1>>,
                           !.calls = <<>>]
           /\ outcome' = Outcome("open_logfile_allconn", <<p>>, "return", <<>>)
    /\ UNCHANGED <<pipevars, specifics, repo, globals, vfiles, streams, outpipe>>

\* The client calls Log.close_logfile(): nothing unless self.log_file_open
CloseLogfile ==
    /\ logger.pc[1] = "idle"
    /\ IF logger.log[0].log_file_open
       THEN logger' = [logger EXCEPT !.pc = <<"close", logger.log[0].log_file_conn, 1>>,
                                     !.calls = <<>>]
       ELSE logger' = [logger EXCEPT !.calls = <<>>]
    /\ outcome' = Outcome("close_logfile", <<>>, "return", <<>>)
    /\ UNCHANGED <<pipevars, specifics, repo, globals, vfiles, streams, outpipe>>

\* for conn in Globals.connections: conn.log.Log.close_logfile_allconn()
CloseLogfileAllconn ==
    /\ logger.pc[1] = "close"
    /\ logger.pc[3] <= Len(connections(0))
    /\ LET p == connections(0)[logger.pc[3]]
       IN  /\ logger' = [close_logfile_allconn(logger, p) EXCEPT !.pc[3] = @ + 1,
                                                               !.calls = <<>>]
           /\ outcome' = Outcome("close_logfile_allconn", <<p>>, "return", <<>>)
    /\ UNCHANGED <<pipevars, specifics, repo, globals, vfiles, streams, outpipe>>

\* self.log_file_conn.log.Log.close_logfile_local()
CloseLogfileLocal ==
    /\ logger.pc[1] = "close"
    /\ logger.pc[3] > Len(connections(0))
    /\ logger' = [close_logfile_local(logger, logger.pc[2]) EXCEPT
                    !.pc = <<"idle", 0, 0>>, !.calls = <<>>]
    /\ outcome' = Outcome("close_logfile_local", <<logger.pc[2]>>, "return", <<>>)
    /\ UNCHANGED <<pipevars, specifics, repo, globals, vfiles, streams, outpipe>>

\* some process passes a message to Log.log_to_file
LogToFile ==
    /\ logger.n < MaxLogs
    /\ \E p \in LogPeers : \E message \in Messages :
          /\ logger' = [log_to_file([logger EXCEPT !.calls = <<>>], p, message, 0)
                          EXCEPT !.n = @ + 1]
          /\ outcome' = Outcome("log_to_file", <<p, message>>, "return", <<>>)
    /\ UNCHANGED <<pipevars, specifics, repo, globals, vfiles, streams, outpipe>>

\* _put and _get of the pipe connection of p call Log.conn for a frame
LogConn ==
    /\ logger.n < MaxLogs
    /\ \E p \in LogPeers :
          /\ logger' = [Logger_conn([logger EXCEPT !.calls = <<>>], p) EXCEPT !.n = @ + 1]
          /\ outcome' = Outcome("conn", <<p>>, "return", <<>>)
    /\ UNCHANGED <<pipevars, specifics, repo, globals, vfiles, streams, outpipe>>

\* Log.setterm_verbosity("9") on some process, before it logs anything
SetTermVerbosity ==
    /\ logger.n = 0
    /\ \E p \in LogPeers :
          /\ logger.log[p].term_verbosity # 9
          /\ logger' = [logger EXCEPT !.log[p].term_verbosity = 9,
                                      !.log[p].termverbset = TRUE]
    /\ UNCHANGED <<pipevars, specifics, repo, globals, vfiles, streams, outpipe, outcome>>

LogNext ==
    \/ OpenLogfile \/ OpenLogfileAllconn \/ CloseLogfile \/ CloseLogfileAllconn
    \/ CloseLogfileLocal \/ LogToFile \/ LogConn \/ SetTermVerbosity

LogSpec == Init /\ [][LogNext]_vars

\* ------------------------------------------------------ a backup on its own
\* BackupAction.run is started, the clock having advanced or not; it ends at
\* once when the set-up failed
BackupRun ==
    /\ repo.pc = "idle"
    /\ repo.runs < MaxRuns
    /\ \E dt \in {0, 1} : \E ok \in BOOLEAN :
          repo' = [repo EXCEPT !.curtime = @ + dt, !.runs = @ + 1,
                               !.calls = <<>>, !.applied = 0,
                               !.statistics = "none",
                               !.pc = IF ok THEN "regress" ELSE "idle",
                               !.ended = IF ok THEN "" ELSE "error"]
    /\ outcome' = Outcome("run", <<>>, "return", <<>>)
    /\ UNCHANGED <<pipevars, specifics, logger, globals, vfiles, streams, outpipe>>

\* ret_code |= self._operate_regress(): regress if the repository needs it;
\* a failed regress ends the run
OperateRegress ==
    /\ repo.pc = "regress"
    /\ \E ok \in BOOLEAN :
          IF needs_regress(repo)
          THEN IF ok
               THEN repo' = [regress(repo) EXCEPT !.pc = "mirror_time",
                                                  !.calls = Append(@, "regress")]
               ELSE repo' = [repo EXCEPT !.pc = "idle", !.ended = "error",
                                         !.calls = Append(@, "regress")]
          ELSE repo' = [repo EXCEPT !.pc = "mirror_time"]
    /\ outcome' = Outcome("_operate_regress", <<>>, "return", <<>>)
    /\ UNCHANGED <<pipevars, specifics, logger, globals, vfiles, streams, outpipe>>

\* previous_time = self.repo.get_mirror_time(refresh=True); abort if it is
\* negative or not in the past
GetMirrorTime ==
    /\ repo.pc = "mirror_time"
    /\ LET previous_time == get_mirror_time(repo)
       IN  IF previous_time < 0 \/ previous_time >= repo.curtime
           THEN repo' = [repo EXCEPT !.pc = "idle", !.ended = "error"]
           ELSE repo' = [repo EXCEPT !.pc = "touch", !.previous_time = previous_time,
                                     !.statistics = "open"]
    /\ outcome' = Outcome("get_mirror_time", <<>>, "return", <<>>)
    /\ UNCHANGED <<pipevars, specifics, logger, globals, vfiles, streams, outpipe>>

\* _operate_backup: if previous_time: self.repo.touch_current_mirror(curtime)
OperateBackupTouch ==
    /\ repo.pc = "touch"
    /\ repo' = [(IF Incremental(repo.previous_time)
                 THEN touch_current_mirror(repo, repo.curtime) ELSE repo)
                  EXCEPT !.pc = "apply"]
    /\ outcome' = Outcome("_operate_backup", <<>>, "return", <<>>)
    /\ UNCHANGED <<pipevars, specifics, logger, globals, vfiles, streams, outpipe>>

\* self.repo.apply(source_diffiter, previous_time) applies the next change
\* to the repository
ApplyChange ==
    /\ repo.pc = "apply"
    /\ repo.applied < MaxChanges
    /\ repo' = [repo EXCEPT !.applied = @ + 1, !.calls = Append(@, "apply")]
    /\ outcome' = Outcome("apply", <<>>, "return", <<>>)
    /\ UNCHANGED <<pipevars, specifics, logger, globals, vfiles, streams, outpipe>>

\* apply returns, having applied some or all of the changes there were
ApplyReturn ==
    /\ repo.pc = "apply"
    /\ repo' = [repo EXCEPT !.pc = "marker", !.calls = Append(@, "applied")]
    /\ outcome' = Outcome("apply", <<>>, "return", repo.applied)
    /\ UNCHANGED <<pipevars, specifics, logger, globals, vfiles, streams, outpipe>>

\* if previous_time: self.repo.remove_current_mirror()
\* else: self.repo.touch_current_mirror(Time.getcurtime())
OperateBackupMarker ==
    /\ repo.pc = "marker"
    /\ repo' = [(IF Incremental(repo.previous_time)
                 THEN remove_current_mirror(repo)
                 ELSE touch_current_mirror(repo, repo.curtime))
                  EXCEPT !.pc = "statistics"]
    /\ outcome' = Outcome("_operate_backup", <<>>, "return", <<>>)
    /\ UNCHANGED <<pipevars, specifics, logger, globals, vfiles, streams, outpipe>>

\* self.repo.close_statistics(time.time()); return consts.RET_CODE_OK
CloseStatistics ==
    /\ repo.pc = "statistics"
    /\ repo' = [repo EXCEPT !.pc = "idle", !.statistics = "closed",
                             !.ended = "ok",
                             !.calls = Append(@, "close_statistics")]
    /\ outcome' = Outcome("close_statistics", <<>>, "return", <<>>)
    /\ UNCHANGED <<pipevars, specifics, logger, globals, vfiles, streams, outpipe>>

\* the run is interrupted (killed, power lost) wherever it is
Interrupt ==
    /\ repo.pc # "idle"
    /\ repo' = [repo EXCEPT !.pc = "idle", !.ended = repo.pc]
    /\ outcome' = Outcome("interrupt", <<>>, "return", <<>>)
    /\ UNCHANGED <<pipevars, specifics, logger, globals, vfiles, streams, outpipe>>

BackupNext ==
    \/ BackupRun \/ OperateRegress \/ GetMirrorTime \/ OperateBackupTouch
    \/ ApplyChange \/ ApplyReturn \/ OperateBackupMarker \/ CloseStatistics
    \/ Interrupt

BackupSpec == Init /\ [][BackupNext]_vars

\* ------------------------------------------- a peer that breaks the protocol
\* the values a faulty peer sends where no response is due
StrayValues == {Value(1), Exc("OSError")}

\* While p waits in _get_response, a frame that is neither the response
\* awaited nor a request arrives on its pipe (once in a behaviour).
StrayFrame ==
    /\ outcome.op = ""
    /\ \E p \in Procs : \E req \in ReqNums : \E obj \in StrayValues :
          /\ At(p, "_get_response", "get")
          /\ ~closed[p]
          /\ req # Top(p).req
          /\ pipe' = [pipe EXCEPT ![p] = Append(@, Frame("o", req, obj))]
          /\ outcome' = Outcome("stray", <<p, req>>, "return", obj)
    /\ UNCHANGED <<unused, stack, closed, status, trace, pending, ncalls, failure, process>>
    /\ UNCHANGED <<session, globals, vfiles, streams, outpipe>>

\* the driver makes one call, of the callback chain
StrayCall ==
    /\ ncalls = 0
    /\ ClientCall
    /\ Top("client")'.fs = "callback"

StrayNext ==
    \/ StrayCall \/ StrayFrame \/ ServerStart \/ ClientRecord
    \/ \E p \in Procs :
          \/ RevalAlloc(p) \/ RevalPutRequest(p) \/ RevalPutArg(p)
          \/ RevalWait(p) \/ RevalAdd(p) \/ RevalReturn(p)
          \/ GetResponseMatch(p) \/ GetResponseDispatch(p)
          \/ AnswerRemove(p) \/ AnswerGetArg(p) \/ AnswerVet(p) \/ AnswerResolve(p)
          \/ AnswerExtract(p) \/ AnswerPut(p) \/ AnswerAdd(p)
          \/ CallableLeaf(p) \/ CallableCallback(p) \/ CallableCallbackReturn(p)
          \/ ReadEOF(p)

StraySpec == Init /\ [][StrayNext]_vars

\* ------------------------------------------------------ derived state
Recs(p, fn) == {i \in DOMAIN stack[p] : stack[p][i].fn = fn}
\* own requests of p whose number is allocated and not yet given back
HeldRevals(p) ==
    {i \in Recs(p, "reval") : stack[p][i].pc \in {"putreq", "putarg", "waiting", "gotresp"}}
\* own requests of p written and awaiting their response
AwaitingRevals(p) ==
    {i \in Recs(p, "reval") : stack[p][i].pc \in {"putarg", "waiting"}}
AwaitingReqs(p) == {stack[p][i].req : i \in AwaitingRevals(p)}
\* numbers popped by p's allocator and not given back
Allocated(p) ==
    {stack[p][i].req : i \in HeldRevals(p)}
    \cup {stack[p][i].ack : i \in {j \in Recs(p, "_get_response") : stack[p][j].ack >= 0}}
InService(p) == Recs(p, "_answer_request")
FramesIn(q) == {q[i] : i \in DOMAIN q}
\* the latest event of p's history
Last(p) == trace[p][Len(trace[p])]
Events(ev, p, role) ==
    {i \in DOMAIN trace[p] : trace[p][i].ev = ev /\ trace[p][i].role = role}

\* What fs(args) evaluated on process p returns when nothing interleaves:
\* the callback is evaluated on the other process, and so on down.
RECURSIVE SerialEval(_, _, _)
SerialEval(p, fs, args) ==
    IF ~vet_request(fs, args) THEN Exc("Violation")
    ELSE IF ~EvalResolves(fs) THEN Exc("NameError")
    ELSE IF fs = "fail" THEN Translate(Peer(p), Marshal(p, args[1]))
    ELSE IF fs = "RedirectedRun"
    THEN LET conn == connection_dict(p, args[1].n)
             r == IF conn = "pipe"
                  THEN SerialEval(Peer(p), args[2].name, SubSeq(args, 3, Len(args)))
                  ELSE SerialEval(Peer(p), "RedirectedRun", args)
         IN  IF conn = "none" THEN Exc("KeyError")
             ELSE IF conn = "local" THEN Exc("AttributeError")
             ELSE IF Reraised(r) THEN Translate(Peer(p), Marshal(p, r))
             ELSE r
    ELSE IF fs = "callback" /\ args[1].n > 0
    THEN LET r == SerialEval(Peer(p), "callback", <<Value(args[1].n - 1)>>)
         IN  IF r.kind = "exception" THEN r ELSE Value(r.n + 1)
    ELSE LeafResult(p, fs, args)

\* ----------------------------------------------------------------- claims

\* C1: request-number conservation.  When a reval on a pipe peer has
\* completed (its response is in and it is about to return the value or
\* re-raise the marshalled failure), the peer's unused set equals the set
\* it was when the call began, whatever was serviced during the wait.
C1_Conservation ==
    \A p \in Procs : \A i \in Recs(p, "reval") :
        stack[p][i].pc = "ret" => unused[p] = stack[p][i].pre

\* a top-level callback(2) of the client has completed: the client serviced
\* an inbound request (and issued a nested one) during the wait
C1_Witness ==
    /\ At("client", "reval", "ret")
    /\ Len(stack["client"]) = 2
    /\ Top("client").fs = "callback"
    /\ Top("client").args[1].n = 2
    /\ Top("client").res = Value(2)

\* C2: reentrancy correctness.  If p awaits the response to its request A,
\* then receives request B, and while B is in service issues request C, then
\* C's response is read by p before p writes B's response, and p writes B's
\* response before it reads A's; and the value the driver gets for its call
\* is the one serial evaluation gives.
RespRecvIdx(p, i) ==
    LET later == {k \in Events("recv", p, "response") :
                     k > i /\ trace[p][k].frame.req = trace[p][i].frame.req}
    IN  IF later = {} THEN 0 ELSE CHOOSE k \in later : \A m \in later : k <= m
RespSendIdx(p, j) ==
    LET later == {k \in Events("send", p, "response") :
                     k > j /\ trace[p][k].frame.req = trace[p][j].frame.req}
    IN  IF later = {} THEN 0 ELSE CHOOSE k \in later : \A m \in later : k <= m
Before(a, b) == a # 0 /\ (b = 0 \/ a < b)
\* request A sent at i, B received at j while A awaited, C sent at k while
\* B in service
Nested(p, i, j, k) ==
    /\ i < j /\ j < k
    /\ ~Before(RespRecvIdx(p, i), j)
    /\ ~Before(RespSendIdx(p, j), k)

C2_Reentrancy ==
    /\ \A p \in Procs :
        \A i \in Events("send", p, "request") :
        \A j \in Events("recv", p, "request") :
        \A k \in Events("send", p, "request") :
            Nested(p, i, j, k) =>
                LET rc == RespRecvIdx(p, k)
                    sb == RespSendIdx(p, j)
                    ra == RespRecvIdx(p, i)
                IN  /\ sb # 0 => Before(rc, sb)
                    /\ ra # 0 => Before(sb, ra)
    /\ At("client", "main", "got") =>
          Top("client").res = SerialEval("server", Top("client").fs, Top("client").args)

\* callback(2): A = callback(2) by the client, B = callback(1) by the server,
\* C = callback(0) by the client, and the driver has its result
C2_Witness ==
    /\ At("client", "main", "got")
    /\ Top("client").fs = "callback"
    /\ Top("client").args[1].n = 2
    /\ \E i, k \in Events("send", "client", "request") :
       \E j \in Events("recv", "client", "request") :
          /\ Nested("client", i, j, k)
          /\ RespRecvIdx("client", i) # 0

\* C3: deadlock freedom.  The two processes are never both blocked reading
\* with nothing in transit, and every call of the driver that needs no more
\* request numbers than there are gets its result.
BlockedReading(p) == AtRead(p) /\ ~closed[p] /\ pipe[p] = <<>> /\ ~closed[Peer(p)]
NumbersNeeded(fs, args) ==
    IF fs = "callback" THEN args[1].n + 1
    ELSE IF fs = "RedirectedRun"
    THEN (CASE args[1].n = 0 -> 2 [] args[1].n = 2 -> 3 [] OTHER -> 1)
    ELSE 1
CallFits ==
    /\ At("client", "main", "called") \/ (Running("client") /\ Len(stack["client"]) > 1
                                           /\ stack["client"][1].pc = "called")
    /\ NumbersNeeded(stack["client"][1].fs, stack["client"][1].args) <= Cardinality(ReqNums)
    /\ \A i \in DOMAIN stack["client"][1].args :
          ~is_routine_fatal(stack["client"][1].args[i])
    /\ ~closed["client"]
CallDone == Running("client") /\ stack["client"][1].pc = "got"

C3_DeadlockFree ==
    /\ [](~(BlockedReading("client") /\ BlockedReading("server")))
    /\ CallFits ~> CallDone

\* the deepest chain that fits has returned to the driver
C3_Witness ==
    /\ CallDone
    /\ stack["client"][1].fs = "callback"
    /\ stack["client"][1].args[1].n + 1 = Cardinality(ReqNums)
    /\ stack["client"][1].res.kind = "value"

\* C4: an inbound request never carries a number the receiving peer has
\* outstanding itself: neither a request frame on its way to p nor a request
\* p is servicing has the number of a request p awaits the response to, and
\* no request is ever returned as a response.
C4_InboundDistinct ==
    \A p \in Procs :
        /\ \A f \in FramesIn(pipe[p]) :
              f.obj.kind = "request" => f.req \notin AwaitingReqs(p)
        /\ \A i \in InService(p) : stack[p][i].req \notin AwaitingReqs(p)
        /\ \A k \in Events("recv", p, "response") :
              trace[p][k].frame.obj.kind # "request"

\* the client awaits its request and the server's callback request is on
\* its way to the client
C4_Witness ==
    /\ AwaitingReqs("client") # {}
    /\ pipe["client"] # <<>>
    /\ Head(pipe["client"]).obj.kind = "request"

\* C5: a frame other than the quit frame is written with a request number
\* that the writer holds out of its unused set at that moment and that one
\* of the two peers allocated and has not given back.
C5_FrameNumberHeld ==
    [][\A p \in Procs :
        (/\ Len(trace'[p]) = Len(trace[p]) + 1
         /\ Last(p)'.ev = "send"
         /\ Last(p)'.frame.tag # "q")
        => LET n == Last(p)'.frame.req
           IN  /\ n \notin unused'[p]
               /\ n \in Allocated(p)' \cup Allocated(Peer(p))']_vars

\* the client has just written the response to a callback of the server
C5_Witness ==
    /\ trace["client"] # <<>>
    /\ Last("client").ev = "send"
    /\ Last("client").role = "response"
    /\ At("client", "_answer_request", "add")

\* C6 as stated: 255 is never handed out, so no request, argument or
\* response frame carries 255.
C6_Never255 ==
    /\ \A p \in Procs : QuitReqNum \notin Allocated(p)
    /\ \A p \in Procs : \A i \in DOMAIN trace[p] :
          trace[p][i].frame.tag # "q" => trace[p][i].frame.req # QuitReqNum

\* C6 amended: 255 is the number the quit frame carries.  Every q frame is
\* written with 255, every frame's number lies in 0..255, and a frame is
\* taken for the quit signal exactly when its tag is q (frames of other tags
\* may carry 255 too).
C6_QuitNumber ==
    /\ \A p \in Procs : \A i \in DOMAIN trace[p] :
          /\ trace[p][i].frame.tag = "q" => trace[p][i].frame.req = QuitReqNum
          /\ trace[p][i].frame.req \in 0..(ReqRange - 1)
          /\ trace[p][i].role = "quit" <=> trace[p][i].frame.tag = "q"
    /\ \A p \in Procs : \A f \in FramesIn(pipe[p]) :
          f.tag = "q" => f.req = QuitReqNum

\* the server has read the q frame; the driver's call before it used 255
C6_Witness ==
    /\ At("server", "_get_response", "quit_ack")
    /\ Last("server") = Recv("server", Frame("q", QuitReqNum, Obj("bytes", "", 0)), "quit")

\* C7: the request frame of a reval with k arguments is followed, among the
\* frames its sender writes, by exactly its k argument frames under the same
\* number; and the receiver collects as arguments of the request exactly
\* those values, in the order of the call (the call being the one the
\* sender still awaits under that number).
SentBy(p) ==
    LET F[i \in 0..Len(trace[p])] ==
          IF i = 0 THEN <<>>
          ELSE IF trace[p][i].ev = "send"
               THEN Append(F[i - 1], trace[p][i]) ELSE F[i - 1]
    IN  F[Len(trace[p])]

C7_Arguments ==
    \A p \in Procs :
        /\ LET S == SentBy(p)
           IN  \A j \in DOMAIN S :
                 S[j].role = "request" =>
                   \A i \in 1..S[j].frame.obj.n :
                     j + i <= Len(S) =>
                       /\ S[j + i].role = "arg"
                       /\ S[j + i].frame.req = S[j].frame.req
        /\ \A a \in InService(p) :
              stack[p][a].pc \in {"getarg", "vet", "resolve", "calling", "extract", "put"}
              => \A r \in AwaitingRevals(Peer(p)) :
                    stack[Peer(p)][r].req = stack[p][a].req =>
                    /\ stack[Peer(p)][r].fs = stack[p][a].fs
                    /\ Len(stack[Peer(p)][r].args) = stack[p][a].nargs
                    /\ Len(stack[p][a].args) <= stack[p][a].nargs
                    /\ stack[p][a].args =
                          SubSeq(stack[Peer(p)][r].args, 1, Len(stack[p][a].args))
                    /\ stack[p][a].pc # "getarg" =>
                          Len(stack[p][a].args) = stack[p][a].nargs

\* the server has collected both arguments of pow(0, 1)
C7_Witness ==
    /\ At("server", "_answer_request", "vet")
    /\ Top("server").fs = "pow"
    /\ Top("server").args = <<Value(0), Value(1)>>

\* C8 as stated: a side never has more than one own request awaiting its
\* response on the pipe.
C8_AtMostOne ==
    \A p \in Procs : pending[p] <= 1 /\ Cardinality(AwaitingRevals(p)) <= 1

\* C8 amended: a side has a further request awaiting only from inside the
\* servicing of an inbound request that arrived during the earlier wait: the
\* requests a side awaits number at most one more than the inbound requests
\* it is servicing, and between two of them on its stack lies such a service
\* (of a side whose process has not ended on a failure).
C8_NestedAwaiting ==
    \A p \in Procs : Running(p) =>
        /\ pending[p] <= 1 + Cardinality(InService(p))
        /\ Cardinality(AwaitingRevals(p)) <= pending[p]
        /\ \A i, k \in AwaitingRevals(p) :
              i < k => \E j \in InService(p) : i < j /\ j < k

\* the client awaits two requests of its own, the inner one issued while it
\* services the server's callback
C8_Witness ==
    /\ Cardinality(AwaitingRevals("client")) = 2
    /\ pending["client"] = 2
    /\ Cardinality(InService("client")) = 1

\* C9: the gate is consulted, with the request and all its arguments, before
\* the name is resolved; a rejected request is never resolved or invoked and
\* gets exactly one response frame, carrying the rejection under its number.
Rejected(a) == a.vetted >= 0 /\ ~vet_request(a.fs, a.args)
\* the receipt of the request a answers is still in the history
InHistory(p, a) ==
    \E k \in Events("recv", p, "request") :
        trace[p][k].frame = Frame("o", a.req, Request(a.fs, a.nargs))
C9_GateFirst ==
    \A p \in Procs : \A i \in InService(p) :
        LET a == stack[p][i]
        IN  /\ a.pc \in {"resolve", "calling"} \/ a.resolved
                => a.vetted = a.nargs /\ Len(a.args) = a.nargs
                   /\ vet_request(a.fs, a.args)
            /\ a.pc \in {"remove", "getarg", "vet"} => a.vetted = -1 /\ ~a.resolved
            /\ Rejected(a) =>
                /\ ~a.resolved
                /\ i = Len(stack[p])
                /\ a.res = Exc("Violation")
                /\ a.pc \in {"extract", "put", "add"}
                /\ a.nresp = (IF a.pc = "add" THEN 1 ELSE 0)
                /\ Cardinality({k \in Events("send", p, "response") :
                                   trace[p][k].frame = Frame("o", a.req, Exc("Violation"))})
                      = (IF a.pc = "add" /\ InHistory(p, a) THEN 1 ELSE 0)

\* the server has answered os.system() with the rejection
C9_Witness ==
    /\ At("server", "_answer_request", "add")
    /\ Top("server").fs = "os.system"
    /\ Rejected(Top("server"))
    /\ trace["server"] # <<>>
    /\ Last("server") =
          Sent("server", Frame("o", Top("server").req, Exc("Violation")), "response")

\* C10: the server-mode loop.  At the head of the loop of _get_response(-1)
\* the next step answers a request, reads the quit frame or fails reading: it
\* never returns a frame as the awaited response.  Each request it answers
\* gets exactly one response frame, under the request's number, after which
\* the loop is at its head again; and Server() returns only after a q frame
\* was read.
LoopHead ==
    /\ Len(stack["server"]) = 2
    /\ At("server", "_get_response", "get")
    /\ stack["server"][1].fn = "Server"
LoopAnswered ==
    /\ Len(stack["server"]) = 3
    /\ At("server", "_answer_request", "add")
    /\ stack["server"][1].fn = "Server"

C10_ServerLoop ==
    /\ [][LoopHead /\ stack'["server"] # stack["server"] =>
            \/ status'["server"] = "crashed"
            \/ /\ Len(stack'["server"]) = 3
               /\ stack'["server"][3].fn = "_answer_request"
               /\ stack'["server"][3].req = Last("server")'.frame.req
            \/ /\ Len(stack'["server"]) = 2
               /\ stack'["server"][2].pc = "quit_ack"]_vars
    /\ [][(Len(stack["server"]) = 3 /\ At("server", "_answer_request", "put")
             /\ stack'["server"] # stack["server"] /\ status'["server"] = "running")
          => /\ LoopAnswered'
             /\ Last("server")' =
                  Sent("server", Frame("o", Top("server").req, Top("server").res),
                       "response")]_vars
    /\ [][LoopAnswered /\ stack'["server"] # stack["server"] => LoopHead']_vars
    /\ [](\A i \in InService("server") :
             stack["server"][i].nresp = (IF stack["server"][i].pc = "add" THEN 1 ELSE 0))
    /\ []((status["server"] = "returned" \/ At("server", "Server", "returned"))
             => Events("recv", "server", "quit") # {})

\* the server answered both calls of the driver and has left its loop on q
C10_Witness ==
    /\ status["server"] = "returned"
    /\ ncalls = MaxCalls
    /\ Events("recv", "server", "quit") # {}
    /\ status["client"] = "running"

\* C11: quit handshake ordering.  quit() of the client writes exactly one q
\* frame, with request number 255 and an empty payload; the server, having
\* read it, writes exactly one o frame with payload "quitting", then closes
\* its pipes and leaves its loop, and writes nothing afterwards; the client
\* closes its pipes only after it has read that acknowledgement.
QuitSent == Events("send", "client", "quit")
QuitRead == Events("recv", "server", "quit")
\* what the server wrote after it read the q frame
SentAfterQuit ==
    {i \in DOMAIN trace["server"] : /\ trace["server"][i].ev = "send"
                                    /\ \E j \in QuitRead : j < i}
AckRead == Events("recv", "client", "ack")

C11_QuitHandshake ==
    /\ [](/\ Cardinality(QuitSent) <= 1
          /\ \A p \in Procs : \A i \in DOMAIN trace[p] :
                trace[p][i].role = "quit" /\ trace[p][i].ev = "send" =>
                /\ p = "client"
                /\ trace[p][i].frame = Frame("q", QuitReqNum, Obj("bytes", "", 0)))
    /\ [](/\ Cardinality(SentAfterQuit) <= 1
          /\ \A i \in SentAfterQuit :
                /\ trace["server"][i].role = "ack"
                /\ trace["server"][i].frame.tag = "o"
                /\ trace["server"][i].frame.obj = Quitting)
    /\ [](QuitRead # {} /\ closed["server"] => Cardinality(SentAfterQuit) = 1)
    /\ [](status["server"] = "returned" => QuitRead # {} /\ closed["server"])
    /\ [](QuitSent # {} /\ closed["client"] =>
             /\ SentAfterQuit # {}
             /\ \E i \in AckRead : trace["client"][i].frame.obj = Quitting)
    /\ (QuitRead # {} ~> status["server"] = "returned")
    /\ (QuitSent # {} ~> closed["client"])

\* the whole handshake with nothing before it: q out, q in, the
\* acknowledgement out and in, both sides closed, the server out of its loop
C11_Witness ==
    /\ Len(trace["client"]) = 2 /\ Len(trace["server"]) = 2
    /\ trace["client"][1] =
          Sent("client", Frame("q", QuitReqNum, Obj("bytes", "", 0)), "quit")
    /\ trace["server"][1].ev = "recv"
    /\ trace["server"][2].ev = "send" /\ trace["server"][2].frame.obj = Quitting
    /\ trace["client"][2].ev = "recv" /\ trace["client"][2].role = "ack"
    /\ closed["client"] /\ closed["server"]
    /\ status["server"] = "returned"
    /\ ncalls = 0

\* C12: quit idempotence.  After the client has sent q and read the
\* acknowledgement, every further reval or quit on that pipe peer fails with
\* a transport error (ConnectionWriteError or ConnectionReadError): it
\* delivers no frame, does not block and raises no other error; and the
\* server dispatches no request after it acknowledged the quit.
HasQuit == closed["client"] /\ AckRead # {}
C12_QuitIdempotence ==
    /\ HasQuit /\ failure["client"] # NoneObj =>
          failure["client"].name \in {"ConnectionWriteError", "ConnectionReadError"}
    /\ HasQuit => \A i \in DOMAIN trace["client"] : \A j \in AckRead :
                     j < i => trace["client"][i].ev # "send"
    /\ \A i \in Events("recv", "server", "request") : \A j \in QuitRead : i < j
    /\ HasQuit => \A i \in Recs("client", "quit") \cup Recs("client", "reval") :
                     stack["client"][i].pc \in {"alloc", "putreq", "putquit"}

\* a reval issued after the quit was over has ended the client
C12_Witness ==
    /\ HasQuit
    /\ ncalls = 1
    /\ status["client"] = "crashed"
    /\ failure["client"].kind = "exception"
    /\ Last("client").role = "ack"

\* C13: child reaping escalation.  Closing a pipe peer that has a child
\* process closes both pipes first and then waits for the child; terminate()
\* is called only if the wait timed out, and kill() only if the child is
\* still alive after terminate(); a peer without child process performs none
\* of these steps.  When quit is over the child has been waited for and is
\* gone.
Calls(p) == process[p].calls
ReapOrder == <<"wait", "TimeoutExpired", "terminate", "kill">>
CallsNext(p, call) == Calls(p)' = Append(Calls(p), call)

C13_Reaping ==
    /\ [](\A p \in Procs :
            /\ Len(Calls(p)) <= Len(ReapOrder)
            /\ Calls(p) = SubSeq(ReapOrder, 1, Len(Calls(p)))
            /\ Calls(p) # <<>> => closed[p]
            /\ ~HasProcess(p) => Calls(p) = <<>>)
    /\ [][\A p \in Procs :
            /\ CallsNext(p, "terminate") =>
                  Calls(p)[Len(Calls(p))] = "TimeoutExpired"
            /\ Calls(p)' = Calls(p) \o <<"wait", "TimeoutExpired">> =>
                  process[p].state = "alive"
            /\ CallsNext(p, "kill") =>
                  /\ process[p].state = "alive"
                  /\ Calls(p)[Len(Calls(p))] = "terminate"]_vars
    /\ [](At("client", "main", "done") =>
            /\ Calls("client") # <<>>
            /\ process["client"].state = "exited")

\* the wait timed out, terminate() did not end the child, kill() did; the
\* server closed its pipes without any of these steps
C13_Witness ==
    /\ At("client", "main", "done")
    /\ Calls("client") = ReapOrder
    /\ closed["server"] /\ Calls("server") = <<>>

\* C14: non-fatal failures are answered.  Whenever evaluating an inbound
\* request raises a failure that is not routine-fatal (the NameError of the
\* resolver and the rejection of the gate included), the peer sends exactly
\* one response frame with the request's number carrying that failure, gives
\* the number back to unused, and goes on servicing later frames.
C14_FailureAnswered ==
    /\ [][\A p \in Procs :
            (At(p, "_answer_request", "extract") /\ ~is_routine_fatal(Top(p).res)
               /\ stack'[p] # stack[p])
            => /\ At(p, "_answer_request", "put")'
               /\ Top(p)' = [Top(p) EXCEPT !.pc = "put", !.res = Marshal(p, Top(p).res)]]_vars
    /\ [][\A p \in Procs :
            (At(p, "_answer_request", "put") /\ Top(p).res.kind = "exception"
               /\ stack'[p] # stack[p])
            => /\ trace'[p] = Append(trace[p], Sent(p, Frame("o", Top(p).req, Top(p).res),
                                                    "response"))
               /\ pipe'[Peer(p)] = Append(pipe[Peer(p)], Frame("o", Top(p).req, Top(p).res))
               /\ Top(p)' = [Top(p) EXCEPT !.pc = "add", !.nresp = 1]]_vars
    /\ [][\A p \in Procs :
            (At(p, "_answer_request", "add") /\ stack'[p] # stack[p])
            => /\ unused'[p] = unused[p] \cup {Top(p).req}
               /\ Top(p).req \notin unused[p]
               /\ At(p, "_get_response", "get")'
               /\ Len(stack'[p]) = Len(stack[p]) - 1]_vars
    /\ [](\A p \in Procs : \A i \in InService(p) :
            stack[p][i].pc \in {"put", "add"} /\ stack[p][i].res.kind = "exception" =>
                /\ ~is_routine_fatal(stack[p][i].res)
                /\ stack[p][i].nresp = (IF stack[p][i].pc = "add" THEN 1 ELSE 0))

\* the server has answered the request for a name that does not resolve
\* with the NameError, under the request's number
C14_Witness ==
    /\ At("server", "_answer_request", "add")
    /\ Top("server").res = Exc("NameError")
    /\ Top("server").nresp = 1
    /\ Last("server") =
         Sent("server", Frame("o", Top("server").req, Exc("NameError")), "response")

\* C15: fatal failures are not marshalled.  When a dispatched callable
\* raises a routine-fatal failure, no response frame is written for that
\* request and the failure propagates out of the peer's _get_response (the
\* server loop, or the wait of an enclosing reval), ending it: the failure
\* reaches the next enclosing handler unchanged and in the end leaves the
\* process.
C15_FatalNotMarshalled ==
    /\ [][\A p \in Procs :
            (At(p, "_answer_request", "extract") /\ is_routine_fatal(Top(p).res)
               /\ stack'[p] # stack[p])
            => /\ trace' = trace /\ pipe' = pipe /\ unused' = unused
               /\ Len(stack'[p]) <= Len(stack[p]) - 2
               /\ IF stack'[p] = <<>>
                  THEN status'[p] = "crashed" /\ failure'[p] = Top(p).res
                  ELSE /\ At(p, "_answer_request", "extract")'
                       /\ Top(p)'.res = Top(p).res]_vars
    /\ [](\A p \in Procs : \A i \in DOMAIN trace[p] :
            trace[p][i].role = "response" /\ trace[p][i].frame.obj.kind = "exception"
               => ~is_routine_fatal(trace[p][i].frame.obj))
    /\ \A p \in Procs :
          (At(p, "_answer_request", "extract") /\ is_routine_fatal(Top(p).res))
             ~> (status[p] = "crashed" /\ failure[p].kind = "exception"
                   /\ is_routine_fatal(failure[p]))

\* fail(KeyboardInterrupt) has ended the server: the request and its
\* argument are the only frames, no response was written
C15_Witness ==
    /\ status["server"] = "crashed"
    /\ failure["server"] = Exc("KeyboardInterrupt")
    /\ Events("send", "server", "response") = {}
    /\ Events("recv", "server", "arg") # {}
    /\ pipe["client"] = <<>>

\* C16: failure re-raise at the caller.  reval on a pipe peer returns a
\* value normally if and only if the matching response is not a marshalled
\* failure; when the remote callable raised a non-fatal failure, reval raises
\* a matching failure at the caller, and it does so only after the request
\* number has been returned to unused.
C16_Reraise ==
    /\ At("client", "main", "got") =>
          LET resp == Last("client")
          IN  /\ resp.ev = "recv" /\ resp.role = "response"
              /\ ~Top("client").raised <=> resp.frame.obj.kind # "exception"
              /\ ~Top("client").raised => Top("client").res = resp.frame.obj
              /\ Top("client").raised =>
                    /\ Top("client").res.kind = "exception"
                    /\ Top("client").res.name = resp.frame.obj.name
                    /\ unused["client"] = ReqNums
    /\ \A p \in Procs : At(p, "reval", "ret") => Top(p).req \in unused[p]

\* the server's callable raised GeneratorExit, the failure came back in the
\* response, and reval handed it to the driver as a value
C16_Witness ==
    /\ At("client", "main", "got")
    /\ Top("client").fs = "fail"
    /\ Top("client").args = <<Exc("GeneratorExit")>>
    /\ Top("client").res = Exc("GeneratorExit")
    /\ ~Top("client").raised
    /\ Last("client").frame.obj = Exc("GeneratorExit")

\* C17: OS-error translation.  When the dispatched callable raises an OS
\* error with non-zero numeric code C whose symbolic name on the sender is S
\* (EUNKWN when the sender has no name for C), the caller's reval raises an OS
\* error whose numeric code is the caller platform's code for S when that
\* platform defines S, and C otherwise.
C17_Translation ==
    (/\ At("client", "main", "got")
     /\ Top("client").fs = "fail"
     /\ Top("client").args[1].name = "OSError"
     /\ Top("client").args[1].n # 0)
    => LET C == Top("client").args[1].n
           res == Top("client").res
           S == res.errno_str
       IN  /\ Top("client").raised
           /\ res.kind = "exception" /\ res.name = "OSError"
           /\ \A e \in ErrorCodes("server") : e[1] = C => S = e[2]
           /\ (\A e \in ErrorCodes("server") : e[1] # C) => S = "EUNKWN"
           /\ \A e \in ErrorCodes("client") : e[2] = S => res.n = e[1]
           /\ (\A e \in ErrorCodes("client") : e[2] # S) => res.n = C

\* the server raised OSError 35, EAGAIN there; the client's reval raised
\* OSError 11, the client's EAGAIN
C17_Witness ==
    /\ At("client", "main", "got")
    /\ Top("client").args = <<OSError(35)>>
    /\ Top("client").raised
    /\ Top("client").res.n = 11
    /\ Top("client").res.errno_str = "EAGAIN"

\* C18: request-number exhaustion.  When all request numbers of a pipe peer
\* are in use (its own outstanding requests plus the inbound requests it is
\* answering), a further reval fails with ConnectionError before any frame is
\* written and leaves the unused set unchanged; and the allocator never
\* returns a number that is in use on that peer.
C18_Exhaustion ==
    /\ [][\A p \in Procs :
            (At(p, "reval", "alloc") /\ unused[p] = {} /\ stack'[p] # stack[p])
            => /\ trace' = trace /\ pipe' = pipe /\ unused' = unused
               /\ Cardinality(HeldRevals(p)) + Cardinality(InService(p))
                     = Cardinality(ReqNums)
               /\ \/ /\ status'[p] = "crashed"
                     /\ failure'[p] = Exc("ConnectionError")
                  \/ /\ At(p, "_answer_request", "extract")'
                     /\ Top(p)'.res = Exc("ConnectionError")]_vars
    /\ [][\A p \in Procs :
            (At(p, "reval", "alloc") /\ unused[p] # {} /\ stack'[p] # stack[p])
            => /\ Top(p)'.fn = "reval" /\ Top(p)'.pc = "putreq"
               /\ Top(p)'.req \in unused[p]
               /\ unused'[p] = unused[p] \ {Top(p)'.req}
               /\ \A i \in HeldRevals(p) \cup InService(p) :
                     stack[p][i].req # Top(p)'.req]_vars

\* the server's callable wanted one more number than there are: its reval
\* failed with ConnectionError and not one frame of it was written
C18_Witness ==
    /\ At("server", "_answer_request", "extract")
    /\ Top("server").res = Exc("ConnectionError")
    /\ unused["server"] = {}
    /\ pipe["client"] = <<>>
    /\ Last("server").ev = "call"

\* C19: routed-call redirection guard.  RedirectedRun(conn, name, args...)
\* looks conn up in the registry of the peer that runs it.  When conn is that
\* peer's own local peer (or is not registered) the call ends at once in a
\* failure handed to the caller's response, and the named function is never
\* invoked there; otherwise the call issues exactly one reval on the
\* registered peer, reval(name, args...) on a pipe peer and the same
\* RedirectedRun on a routed one; it enters no callable itself (those above
\* it answer requests read from the pipe during the wait), and what that
\* reval returns is what RedirectedRun returns.
C19_RedirectGuard ==
    /\ [](\A p \in Procs : \A i \in Recs(p, "callable") :
            stack[p][i].fs = "RedirectedRun" =>
              LET a == stack[p][i]
                  conn == connection_dict(p, a.args[1].n)
              IN  /\ a.pc \in {"start", "called", "returned"}
                  /\ a.pc \in {"start", "returned"} => i = Len(stack[p])
                  /\ a.pc \in {"called", "returned"} => conn \in {"pipe", "routed"}
                  /\ a.pc = "called" =>
                        /\ i < Len(stack[p])
                        /\ stack[p][i + 1].fn = "reval"
                        /\ stack[p][i + 1].fs =
                              (IF conn = "pipe" THEN a.args[2].name ELSE "RedirectedRun")
                        /\ stack[p][i + 1].args =
                              (IF conn = "pipe" THEN SubSeq(a.args, 3, Len(a.args))
                               ELSE a.args)
                        /\ \A j \in Recs(p, "callable") : j > i =>
                              /\ j > i + 2
                              /\ stack[p][j - 1].fn = "_answer_request")
    /\ [][\A p \in Procs :
            (At(p, "callable", "start") /\ Top(p).fs = "RedirectedRun"
               /\ stack'[p] # stack[p])
            => IF connection_dict(p, Top(p).args[1].n) \in {"local", "none"}
               THEN /\ Len(stack'[p]) = Len(stack[p]) - 1
                    /\ At(p, "_answer_request", "extract")'
                    /\ Top(p)'.raised
                    /\ Top(p)'.res \in {Exc("AttributeError"), Exc("KeyError")}
                    /\ trace' = trace /\ pipe' = pipe
               ELSE /\ Len(stack'[p]) = Len(stack[p]) + 1
                    /\ At(p, "reval", "alloc")'
                    /\ stack'[p][Len(stack[p])] = [Top(p) EXCEPT !.pc = "called"]]_vars
    /\ [][\A p \in Procs :
            (At(p, "callable", "returned") /\ Top(p).fs = "RedirectedRun"
               /\ stack'[p] # stack[p])
            => /\ Len(stack'[p]) = Len(stack[p]) - 1
               /\ At(p, "_answer_request", "put")'
               /\ Top(p)'.res = Top(p).res]_vars

\* the server was asked to redirect os.getpid to its own local peer: the
\* call has failed and os.getpid was not invoked
C19_Witness ==
    /\ At("server", "_answer_request", "extract")
    /\ Top("server").fs = "RedirectedRun"
    /\ Top("server").args = <<Value(1), Str("os.getpid")>>
    /\ Top("server").res = Exc("AttributeError")
    /\ Cardinality(Events("call", "server", "call")) = 1

\* C20: routed call end to end.  reval(name, args...) on a routed peer with
\* target t sends RedirectedRun(t, name, args...) to the routing peer; when
\* the call is back at the originator the named function has been evaluated
\* exactly once, on peer t (the originator's own process for target 0, the
\* peer behind the routing peer for target 2) and nowhere else, and the
\* originator holds exactly what t produced: the value returned there, or
\* the failure raised there as a direct reval on t hands it over.
C20_RoutedCall ==
    (At("client", "main", "got") /\ Top("client").fs = "RedirectedRun") =>
      LET a == Top("client")
          k == a.args[1].n
          name == a.args[2].name
          args == SubSeq(a.args, 3, Len(a.args))
          t == IF k = 0 THEN "client" ELSE "server"
          evals(p) == {i \in Events("call", p, "call") :
                          trace[p][i].frame.obj.name = name}
          sent == SentBy("client")
      IN  /\ sent[1].frame.obj = Request("RedirectedRun", Len(a.args))
          /\ sent[1].role = "request"
          /\ \A i \in DOMAIN a.args :
                sent[1 + i].role = "arg" /\ sent[1 + i].frame.obj = a.args[i]
          /\ k \in {0, 2} =>
                /\ Cardinality(evals(t)) = (IF EvalResolves(name) THEN 1 ELSE 0)
                /\ evals(Peer(t)) = {}
                /\ name = "os.getpid" => ~a.raised /\ a.res = Value(Pid(t))
                /\ name = "missing" => a.raised /\ a.res = Exc("NameError")
                /\ name = "fail" =>
                      /\ a.raised
                      /\ a.res.name = args[1].name
                      /\ a.res.n = (IF t = "client" THEN args[1].n
                                    ELSE Translate("client", Marshal(t, args[1])).n)
          /\ k \notin {0, 2} => evals("client") = {} /\ evals("server") = {}

\* the originator asked for fail(OSError(35)) on target 0, its own process,
\* through the server: the function ran once, in the client, and raised the
\* error with code 35, and the originator holds an error with code 11
C20_Witness ==
    /\ At("client", "main", "got")
    /\ Top("client").fs = "RedirectedRun"
    /\ Top("client").args = <<Value(0), Str("fail"), OSError(35)>>
    /\ Cardinality(Events("call", "client", "call")) = 1
    /\ Top("client").raised
    /\ Top("client").res.name = "OSError"
    /\ Top("client").res.n = 11

\* C21: name resolution of built-ins.  When the first segment of a function
\* string names a built-in and every further segment is an attribute of the
\* object reached so far, the resolver returns the object at the end of the
\* whole path, not the bare built-in.
C21_BuiltinWalk ==
    (outcome.op = "_eval" /\ Head(outcome.arg) \in Builtins
       /\ _eval_walked(globals, outcome.arg).kind = "return")
    => outcome.kind = "return" /\ outcome.val = outcome.arg

\* pow.__call__ was asked for and the built-in pow itself came back
C21_Witness == outcome = Outcome("_eval", <<"pow", "__call__">>, "return", <<"pow">>)

\* C22: name resolution failure.  When resolution fails at some step (the
\* first segment is neither a built-in nor a key of globals, or a later
\* segment is not an attribute of the object reached so far) the resolver
\* raises NameError for the full function string and returns nothing.
C22_NameError ==
    (outcome.op = "_eval" /\ _eval_walked(globals, outcome.arg).kind = "raise")
    => outcome.kind = "raise" /\ outcome.val = "NameError"

\* pow.nosuch was asked for: no NameError, the built-in pow came back
C22_Witness == outcome = Outcome("_eval", <<"pow", "nosuch">>, "return", <<"pow">>)

\* C23 as stated: the names other than built-ins that the resolver accepts
\* as first segment are, in every state, the ones import_modules listed at
\* initialisation.
C23_FixedRegistry ==
    {n \in Modules \cup LocalElements \cup AttrNames :
        n \notin Builtins /\ _eval(globals, <<n>>).kind = "return"}
    = Modules \cup LocalElements

\* C23 amended: the names other than built-ins that the resolver accepts as
\* first segment are the keys of Connection.globals, and that set changes
\* only by an attribute assignment or deletion on the local connection, or
\* by the construction of a connection after map_filenames was deleted
\* (which imports the listed names again); resolving a name never changes
\* globals.
C23_RegistryChanges ==
    /\ [](\A n \in Modules \cup LocalElements \cup AttrNames :
            n \notin Builtins =>
              (_eval(globals, <<n>>).kind = "return" <=> n \in DOMAIN globals))
    /\ [][DOMAIN globals' # DOMAIN globals =>
            \/ outcome'.op = "__setattr__" /\ outcome'.kind = "return"
                  /\ DOMAIN globals' = DOMAIN globals \cup {outcome'.arg[1]}
            \/ outcome'.op = "__delattr__" /\ outcome'.kind = "return"
                  /\ DOMAIN globals' = DOMAIN globals \ {outcome'.arg[1]}
            \/ outcome'.op = "__init__" /\ "map_filenames" \notin DOMAIN globals
                  /\ DOMAIN globals' = DOMAIN globals \cup Modules \cup LocalElements]_vars
    /\ [][outcome'.op = "_eval" => globals' = globals]_vars
    /\ [][outcome'.op = "__init__" /\ "map_filenames" \in DOMAIN globals
            => globals' = globals]_vars

\* after evil was assigned on the local connection, a request for evil.join
\* resolved to os.path.join
C23_Witness ==
    /\ outcome = Outcome("_eval", <<"evil", "join">>, "return", <<"os", "path", "join">>)
    /\ "evil" \notin Modules \cup LocalElements

\* C24: every id VirtualFile.new returns is greater than every id it
\* returned before, also after entries were closed; the handle made on the
\* other side holds the id returned; every key of the table is at most the
\* counter.
C24_IdsIncrease ==
    /\ \A i, j \in DOMAIN vfiles.ids : i < j => vfiles.ids[i] < vfiles.ids[j]
    /\ \A id \in DOMAIN vfiles.files : id <= vfiles.counter
    /\ outcome.op = "_putfile" => outcome.val = vfiles.ids[Len(vfiles.ids)]
C24_Witness ==
    /\ outcome.op = "_putfile"
    /\ Len(vfiles.ids) = 3
    /\ vfiles.ids[1] \notin DOMAIN vfiles.files
    /\ vfiles.ids[2] \notin DOMAIN vfiles.files

\* C25: closebyid of a registered id removes the entry, also when the file
\* object's close raises, and calls close on that file object once and on no
\* other; an id once removed stays removed; readfromid, writetoid and
\* closebyid of an id that is not in the table raise KeyError and change
\* neither the table nor any file object.
C25_CloseRemoves ==
    [][/\ outcome'.op = "VirtualFile.closebyid"
             /\ outcome'.arg[1] \in DOMAIN vfiles.files
          => LET id == outcome'.arg[1]
                 fp == vfiles.files[id]
             IN  /\ DOMAIN vfiles'.files = DOMAIN vfiles.files \ {id}
                 /\ streams' = [streams EXCEPT ![fp].closes = @ + 1]
       /\ outcome'.op \in {"VirtualFile.closebyid", "VirtualFile.readfromid",
                            "VirtualFile.writetoid"}
             /\ outcome'.arg[1] \notin DOMAIN vfiles.files
          => /\ outcome'.kind = "raise"
             /\ outcome'.val = "KeyError"
             /\ streams' = streams
             /\ vfiles' = vfiles
       /\ \A k \in DOMAIN vfiles.ids :
             vfiles.ids[k] \notin DOMAIN vfiles.files
                => vfiles.ids[k] \notin DOMAIN vfiles'.files
      ]_vars
C25_Witness ==
    /\ outcome.op = "VirtualFile.closebyid"
    /\ outcome.kind = "raise"
    /\ outcome.val = "OSError"
    /\ outcome.arg[1] \notin DOMAIN vfiles.files
    /\ vfiles.counter = 2

\* C26: the handle made for a registered file object names its table
\* entry; the buffers that reads of the handle return, joined, are the
\* bytes of the file object up to where it has been read, each read(n)
\* returning at most n of them, and all of them once a read returns the
\* empty buffer; read() without a length returns all that remain.
C26_Fidelity ==
    [][/\ outcome'.op = "_putfile"
          => vfiles'.files[outcome'.val] = outcome'.arg[1]
       /\ outcome'.op = "VirtualFile.readfromid" /\ outcome'.kind = "return"
          => LET fp == vfiles.files[outcome'.arg[1]]
                 length == outcome'.arg[2]
                 buf == outcome'.val
                 data == streams[fp].data
                 pos == streams[fp].pos
             IN  /\ streams'[fp].out = SubSeq(data, 1, streams'[fp].pos)
                 /\ buf = SubSeq(data, pos + 1, pos + Len(buf))
                 /\ streams'[fp].pos = pos + Len(buf)
                 /\ buf = <<>> => streams'[fp].out = data
                 /\ length # None => Len(buf) <= length
                 /\ length = None => pos + Len(buf) = Len(data)
      ]_vars
C26_Witness ==
    /\ outcome.op = "VirtualFile.readfromid"
    /\ outcome.kind = "return"
    /\ outcome.arg = <<1, 2>>
    /\ outcome.val = <<>>
    /\ vfiles.files[1] = "fa"
    /\ streams["fa"].out = <<1, 2, 3>>
    /\ streams["fa"].written = <<>>

\* C27: the frame written for a connection holds its conn_number, and _get
\* of the frame returns what the reader's connection_dict holds under that
\* number; when the number is no key there, _get raises one of the
\* connection errors and returns nothing.
C27_PeerRoundTrip ==
    [][/\ outcome'.op = "_putconn" /\ outcome'.kind = "return"
          => \E k \in 0..MaxConn :
                /\ _b2i(Plain(outcome'.arg.data)) = Num(k)
                /\ outcome'.arg.headerchar = "c"
       /\ outcome'.op = "_get" /\ outcome'.arg[1] = Ascii("c")
          => LET conn == connection_dict("server", Val(_b2i(Plain(outcome'.arg[4]))))
             IN  IF conn # "none"
                 THEN outcome'.kind = "return" /\ outcome'.val = conn
                 ELSE /\ outcome'.kind = "raise"
                      /\ outcome'.val \in {"ConnectionError", "ConnectionReadError"}
      ]_vars
C27_Witness ==
    /\ outcome.op = "_get"
    /\ outcome.arg[1] = Ascii("c")
    /\ outcome.kind = "raise"
    /\ outcome.val = "KeyError"
    /\ outcome.arg[4] = Bytes(<<MaxConn>>)

C29_LengthBounds ==
    [][outcome'.op \in {"_write", "_putconn"}
       => LET f == outcome'.arg
              l == len(f.data).mag
              toolong == Len(l) > 4 \/ (Len(l) = 4 /\ l[1] >= 256)
          IN  IF toolong \/ f.req_num > 255 \/ f.req_num < 0
              THEN /\ outcome'.kind = "raise"
                   /\ outcome'.val = "OverflowError"
                   /\ outpipe' = outpipe
              ELSE /\ outcome'.kind = "return"
                   /\ Len(outpipe'.bytes) = Len(outpipe.bytes) + 9 + Len(f.data)
                   /\ SubSeq(outpipe'.bytes, Len(outpipe.bytes) + 10,
                              Len(outpipe'.bytes)) = f.data
      ]_vars
C29_Witness ==
    /\ outcome.op = "_write"
    /\ outcome.kind = "raise"
    /\ len(outcome.arg.data) = Big56
    /\ outpipe.puts = 1

\* C30: _get at fewer than nine bytes before the end of the pipe, or at a
\* header whose format character is not of the set, raises
\* ConnectionReadError; no value is handed on for it, and the reader reads
\* and hands on nothing after it.
C30_Malformed ==
    [][/\ outcome'.op = "_get"
             /\ \/ Len(outpipe.bytes) < 9
                \/ outpipe.bytes[1].b \notin {Ascii(t) : t \in Tags}
          => /\ outcome'.kind = "raise"
             /\ outcome'.val = "ConnectionReadError"
             /\ outpipe'.done
       /\ outpipe.done
          => /\ outpipe'.answered = outpipe.answered
             /\ outcome'.op \notin {"_get", "handled"}
      ]_vars
C30_Witness ==
    /\ outcome.op = "_get"
    /\ outcome.kind = "raise"
    /\ outcome.val = "ConnectionReadError"
    /\ outcome.arg[1] = Ascii("x")
    /\ outpipe.answered = 1
    /\ outpipe.done

C32_Classification ==
    [][outcome'.op = "_put"
       => LET obj == outcome'.arg
              f == outpipe'.frames[Len(outpipe'.frames)]
              filelike == /\ hasattr(obj, "close")
                          /\ hasattr(obj, "read") \/ hasattr(obj, "write")
              lazy == hasattr(obj, "__next__") /\ hasattr(obj, "__iter__")
              rules == << <<"b", obj.type = "bytes">>,
                          <<"c", obj.type \in {"PipeConnection", "LocalConnection"}>>,
                          <<"Q", obj.type = "QuotedRPath">>,
                          <<"R", obj.type \in {"QuotedRPath", "RPath"}>>,
                          <<"r", obj.type \in {"QuotedRPath", "RPath", "RORPath"}>>,
                          <<"f", filelike>>, <<"i", lazy>>, <<"o", TRUE>> >>
              first == CHOOSE k \in 1..8 :
                          rules[k][2] /\ \A j \in 1..(k - 1) : ~rules[j][2]
          IN  /\ Len(outpipe'.frames) = Len(outpipe.frames) + 1
              /\ f.headerchar = rules[first][1]
              /\ f.req_num = 7
              /\ obj.type = "QuotedRPath" => f.headerchar = "Q"
              /\ obj.type = "RPath" => f.headerchar = "R"
              /\ obj.type \in {"PipeConnection", "LocalConnection"}
                    => f.headerchar = "c"
      ]_vars
C32_Witness ==
    /\ outcome.op = "_put"
    /\ outcome.arg.type = "PipeConnection"
    /\ outcome.val = "c"
    /\ outpipe.puts = 2
    /\ outpipe.bytes = Bytes(<<99, 7, 0, 0, 0, 0, 0, 0, 1, 2>>)

\* C33: taking attributes of a pipe connection or a routed one, and of the
\* proxy it gives, changes nothing of the connection: no frame is written
\* and no request number taken; the proxy holds the names joined by dots.
\* Calling it starts one reval, of the joined names and the arguments on a
\* pipe connection, and of RedirectedRun, the target, the joined names and
\* the arguments on a routed one; frames are written and a number is taken
\* only after the call, one request frame for it, carrying that function
\* string.
C33_CallProxy ==
    [][LET Dotted[k \in 1..MaxChain] ==
               IF k = 1 THEN outcome'.arg[2][1]
               ELSE Dotted[k - 1] \o "." \o outcome'.arg[2][k]
           name == Dotted[Len(outcome'.arg[2])]
           conn == outcome'.arg[1]
           args == outcome'.arg[3]
           fs == IF conn.class = "PipeConnection" THEN name ELSE "RedirectedRun"
           rargs == IF conn.class = "PipeConnection" THEN args
                    ELSE <<Value(conn.conn_number), Str(name)>> \o args
           requests == Events("send", "client", "request")
       IN  /\ outcome'.op = "__getattr__"
              => /\ UNCHANGED pipevars
                 /\ outcome'.val.call_name = name
                 /\ outcome'.val.conn_number = conn.conn_number
           /\ outcome'.op = "__call__" /\ outcome.op = "__getattr__"
              => /\ stack'["client"][Len(stack'["client"])] =
                       Act("reval", "alloc", fs, rargs, 0)
                 /\ Len(stack'["client"]) = Len(stack["client"]) + 1
                 /\ UNCHANGED <<pipe, unused, trace>>
           /\ pipe' # pipe \/ unused' # unused \/ trace' # trace
              => outcome.op = "__call__" /\ outcome' = outcome
           /\ outcome'.op = "__call__"
              => /\ Cardinality(requests') <= 1
                 /\ \A i \in requests' :
                       trace'["client"][i].frame.obj = Request(fs, Len(rargs))
      ]_vars
C33_Witness ==
    /\ outcome.op = "__call__"
    /\ outcome.val.class = "EmulateCallableRedirected"
    /\ outcome.val.call_name = "os.getpid.os"
    /\ pipe["server"] # <<>>
    /\ Last("client").frame.obj = Value(1)


\* ------------------------------------------------------------------- C34
\* the LocalConnection objects a process holds in its specifics module
LocalPeers ==
    {c \in {specifics.local_connection}
            \cup {specifics.connections[i] : i \in DOMAIN specifics.connections}
            \cup {specifics.connection_dict[k] : k \in DOMAIN specifics.connection_dict} :
       c.type = "LocalConnection"}

\* C34: after initialisation the registry maps 0 to the local peer and the
\* list of peers holds exactly the local peer, whose conn_number is 0; at every
\* later moment the process holds at most one local peer, and constructing a
\* second one fails with an assertion and leaves registry and list as they were.
C34_LocalUnique ==
    /\ /\ Truth(specifics.local_connection)
       /\ specifics.local_connection.type = "LocalConnection"
       /\ specifics.local_connection.conn_number = 0
       /\ DOMAIN specifics.connection_dict = {0}
       /\ specifics.connection_dict[0] = specifics.local_connection
       /\ specifics.connections = <<specifics.local_connection>>
    /\ [](/\ Cardinality(LocalPeers) <= 1
          /\ specifics.instances <= 1)
    /\ [][outcome'.op = "LocalConnection" /\ outcome' # outcome =>
            /\ outcome'.kind = "raise"
            /\ outcome'.val = "AssertionError"
            /\ specifics' = specifics
            /\ globals' = globals]_vars

\* a second construction was attempted in a server that has appended its pipe
\* connection to the list
C34_Witness ==
    /\ outcome.op = "LocalConnection"
    /\ outcome.kind = "raise"
    /\ specifics.connections =
          <<ConnObj("LocalConnection", 0), ConnObj("PipeConnection", 0)>>
    /\ specifics.connection_dict[0] = ConnObj("LocalConnection", 0)

\* ------------------------------------------------------------------- C35
\* C35: when _get_response(desired) reads a frame whose request number is
\* not desired and whose value is no request, the frame is not dispatched (no
\* _answer_request starts, its number stays in the unused set), nothing is
\* written to the pipe for it and _get_response fails with an assertion
\* instead of waiting on: the failure ends the process or reaches the
\* handler of an enclosing _answer_request.
C35_ProtocolViolation ==
    [][\A p \in Procs :
          (/\ At(p, "_get_response", "get")
           /\ CanRead(p)
           /\ Head(pipe[p]).tag # "q"
           /\ Head(pipe[p]).req # Top(p).req
           /\ Head(pipe[p]).obj.kind # "request"
           /\ pipe'[p] = Tail(pipe[p]))
          => /\ pipe'[Peer(p)] = pipe[Peer(p)]
             /\ unused' = unused
             /\ Len(stack'[p]) < Len(stack[p])
             /\ \A i \in 1..(Len(stack'[p]) - 1) : stack'[p][i] = stack[p][i]
             /\ IF stack'[p] = <<>>
                THEN /\ status'[p] = "crashed"
                     /\ failure'[p] = Exc("AssertionError")
                ELSE /\ Top(p)'.fn = "_answer_request"
                     /\ Top(p)'.pc = "extract"
                     /\ Top(p)'.res = Exc("AssertionError")
                     /\ stack[p][Len(stack'[p])].fn = "_answer_request"]_vars

\* the server, waiting for the response to its callback from inside the
\* service of a request, has read a stray value: the assertion has reached
\* the handler of that service
C35_Witness ==
    /\ outcome.op = "stray"
    /\ outcome.arg[1] = "server"
    /\ outcome.val = Value(1)
    /\ pipe["server"] = <<>>
    /\ Len(stack["server"]) = 3
    /\ Top("server").fn = "_answer_request"
    /\ Top("server").pc = "extract"
    /\ Top("server").res = Exc("AssertionError")

\* ------------------------------------------------------------------- C36
\* C36: once open_logfile has completed (and no close_logfile is under
\* way), a message passed to log_to_file on any process is written exactly
\* once, to the file of the process holding it: that process writes it
\* itself without any call on a connection, any other process makes exactly
\* one log_to_file call, on its connection to the holder, which writes it;
\* before open_logfile and after close_logfile nothing is written and no
\* call is made.
C36_SharedLog ==
    [][(/\ logger'.n = logger.n + 1
        /\ outcome'.op = "log_to_file"
        /\ logger.pc[1] = "idle")
       => LET p == outcome'.arg[1]
              message == outcome'.arg[2]
              owner == logger.log[0].log_file_conn
          IN  IF logger.log[0].log_file_open
              THEN /\ logger'.file = [logger.file EXCEPT ![owner] = Append(@, message)]
                   /\ logger'.calls = IF p = owner THEN <<>>
                                      ELSE <<<<p, owner, message>>>>
                   /\ logger.log[p].log_file_local <=> p = owner
              ELSE /\ logger'.file = logger.file
                   /\ logger'.calls = <<>>]_vars

\* server 2 has logged a message while server 1 holds the file, after the
\* client logged one: both are in the file of server 1
C36_Witness ==
    /\ outcome.op = "log_to_file"
    /\ outcome.arg = <<2, "Starting server">>
    /\ logger.pc[1] = "idle"
    /\ logger.n = 2
    /\ logger.log[2].log_file_open
    /\ logger.log[2].log_file_conn = 1
    /\ logger.calls = <<<<2, 1, "Starting server">>>>
    /\ logger.file[1] = <<"Starting server", "Starting server">>
    /\ logger.file[0] = <<>> /\ logger.file[2] = <<>>

\* ------------------------------------------------------------------- C40
\* C40: Logger.conn, which _put and _get call for every frame, writes at
\* most one line to the terminal of its process (none below terminal
\* verbosity 9) and nothing else: no log file changes, no call is made on a
\* connection and no frame is put on a pipe, whatever the verbosity and also
\* when another process holds the log file.
C40_NoRegress ==
    [][(logger'.n = logger.n + 1 /\ outcome'.op = "conn")
       => LET p == outcome'.arg[1]
          IN  /\ logger'.file = logger.file
              /\ logger'.calls = <<>>
              /\ logger'.log = logger.log
              /\ logger'.term =
                    [logger.term EXCEPT
                       ![p] = IF logger.log[p].term_verbosity < 9 THEN @ ELSE @ + 1]
              /\ pipe' = pipe /\ unused' = unused /\ stack' = stack]_vars

\* server 2, at terminal verbosity 9 and with the log file open on server 1,
\* has logged a frame
C40_Witness ==
    /\ outcome.op = "conn"
    /\ outcome.arg = <<2>>
    /\ logger.log[2].term_verbosity = 9
    /\ logger.log[2].log_file_open
    /\ ~logger.log[2].log_file_local
    /\ logger.log[2].log_file_conn = 1
    /\ logger.term[2] = 1
    /\ logger.file[1] = <<>>

\* ------------------------------------------------------------------- C38
\* both pipes are empty, each process is outside the connection (the driver
\* between calls, the server not yet serving) or blocked reading, and no
\* quit has been written, read or acknowledged
Quiescent ==
    /\ \A p \in Procs :
          /\ pipe[p] = <<>>
          /\ status[p] = "running" /\ ~closed[p]
          /\ Len(stack[p]) = 1 \/ BlockedReading(p)
          /\ Recs(p, "quit") = {}
          /\ \A i \in Recs(p, "_get_response") :
                stack[p][i].ack < 0 /\ stack[p][i].pc \in {"get", "answering"}

\* C38: whenever the two processes are quiescent, their unused sets are equal
\* and the numbers missing from them are exactly the request numbers of the
\* calls in progress on the pipe, in either direction.
C38_Mirrored ==
    Quiescent =>
        /\ unused["client"] = unused["server"]
        /\ ReqNums \ unused["client"] =
              AwaitingReqs("client") \cup AwaitingReqs("server")

\* the driver has got the result of a callback chain of depth 2, which used
\* every request number; the server is blocked at the head of its loop and
\* every number is back in both sets
C38_Witness ==
    /\ Quiescent
    /\ At("client", "main", "got")
    /\ Top("client").res = Value(2)
    /\ Top("client").fs = "callback"
    /\ Top("client").args = <<Value(2)>>
    /\ BlockedReading("server")
    /\ unused["server"] = ReqNums
    /\ AwaitingReqs("client") = {}

====
